---- MODULE Spec2Model ----
(***************************************************************************)
(* libavcodec/inflate.c: the raster DEFLATE decoder ff_inflate.            *)
(*                                                                         *)
(* A session (InflateContext) is called any number of times; one call      *)
(* decodes a byte buffer into a raster of height rows of width bytes,      *)
(* linesize bytes apart.  The call is modelled step by step: the header    *)
(* sniff, each block header, each iteration of the stored-copy loop, of    *)
(* the symbol loop and of the back-reference copy loop, the check after    *)
(* each block, and the return.                                             *)
(***************************************************************************)
EXTENDS Integers, Sequences, FiniteSets, TLC

VARIABLES
    pc,                    \* position of the call inside ff_inflate
    src,                   \* the input bytes of the current call
    width, height, linesize,   \* s->width, s->height, s->linesize
    raster,                \* dst[row][column], rows 0..height-1, columns 0..linesize-1
    gb,                    \* bit position of s->gb (get_bits_count)
    sx, sy,                \* s->x, s->y
    x, y,                  \* the locals x, y of inflate_block_data
    len,                   \* the local len of the running copy loop
    offs_x, offs_y,        \* the source cursor of a back-reference
    tree,                  \* which tables inflate_block_data runs on: "fixed" or "dynamic"
    bfinal, bmode, ret,    \* the locals of ff_inflate
    fixed_cb_initialized, fixed_ltree, fixed_dtree,
    dynamic_ltree, dynamic_dtree,
    result,                \* the value the call returned
    calls_left,            \* calls the caller still makes on this session
    pool,                  \* the inputs the caller draws from
    alloc,                 \* the outcomes the allocator may give a table build
    probe                  \* observations: counters and the record of the last write

vars == <<pc, src, width, height, linesize, raster, gb, sx, sy, x, y, len,
          offs_x, offs_y, tree, bfinal, bmode, ret, fixed_cb_initialized,
          fixed_ltree, fixed_dtree, dynamic_ltree, dynamic_dtree, result,
          calls_left, pool, alloc, probe>>

(***************************************************************************)
(* Error codes.  Only the sign matters to the code; the two values are     *)
(* kept apart.                                                             *)
(***************************************************************************)
AVERROR_INVALIDDATA == -1
AVERROR_ENOMEM == -12

At(s, i) == s[i + 1]

Pow2(n) == 2 ^ n

Min(a, b) == IF a < b THEN a ELSE b

Abs(a) == IF a < 0 THEN -a ELSE a

(***************************************************************************)
(* The static tables of inflate_block_data and decode_trees.               *)
(***************************************************************************)
length_bits ==
    <<0, 0, 0, 0, 0, 0, 0, 0, 1, 1,
      1, 1, 2, 2, 2, 2, 3, 3, 3, 3,
      4, 4, 4, 4, 5, 5, 5, 5, 0, 127>>

length_base ==
    <<3, 4, 5, 6, 7, 8, 9, 10, 11, 13,
      15, 17, 19, 23, 27, 31, 35, 43, 51, 59,
      67, 83, 99, 115, 131, 163, 195, 227, 258, 0>>

dist_bits ==
    <<0, 0, 0, 0, 1, 1, 2, 2, 3, 3,
      4, 4, 5, 5, 6, 6, 7, 7, 8, 8,
      9, 9, 10, 10, 11, 11, 12, 12, 13, 13>>

dist_base ==
    <<1, 2, 3, 4, 5, 7, 9, 13, 17, 25,
      33, 49, 65, 97, 129, 193, 257, 385, 513, 769,
      1025, 1537, 2049, 3073, 4097, 6145, 8193, 12289, 16385, 24577>>

len_recode ==
    <<16, 17, 18, 0, 8, 7, 9, 6, 10, 5,
      11, 4, 12, 3, 13, 2, 14, 1, 15>>

(***************************************************************************)
(* The bit reader (get_bits.h, little-endian).  A position is a count of   *)
(* bits consumed; bits past the end of the buffer read as zero and the     *)
(* position keeps counting, so that get_bits_left goes negative.           *)
(***************************************************************************)
Bit(s, i) ==
    IF i < 8 * Len(s) THEN (s[(i \div 8) + 1] \div Pow2(i % 8)) % 2 ELSE 0

RECURSIVE show_bits(_, _, _)
show_bits(s, i, n) ==
    IF n = 0 THEN 0 ELSE Bit(s, i) + 2 * show_bits(s, i + 1, n - 1)

align_get_bits(i) == ((i + 7) \div 8) * 8

get_bits_left(s, i) == 8 * Len(s) - i

av_bswap16(h) == (h % 256) * 256 + (h \div 256)

\* get_bits_base: base + get_bitsz(gb, bits); the caller advances by bits
get_bits_base(s, i, bits, base) == base + show_bits(s, i, bits)

(***************************************************************************)
(* The code tables.  ff_vlc_init_from_lengths gives the k-th entry the     *)
(* next code of its length in array order; the arrays inflate.c passes     *)
(* are sorted by length, so the table is the canonical one: count[l]       *)
(* codes of length l, their symbols in array order.  get_vlc2 reads a      *)
(* code most significant bit first and returns its symbol; a bit pattern   *)
(* that is no code of an incomplete table returns -1 and consumes nothing. *)
(***************************************************************************)
CodeLens == 1 .. 15

NoVlc == [count |-> [l \in CodeLens |-> 0], symbol |-> <<>>]

NoTree == [max_sym |-> -1, vlc |-> NoVlc]

build_vlc(nb, lens, symbols) ==
    [count |-> [l \in CodeLens |-> Cardinality({k \in 1 .. nb : lens[k] = l})],
     symbol |-> SubSeq(symbols, 1, nb)]

RECURSIVE get_vlc2(_, _, _, _, _, _, _)
get_vlc2(s, i, vlc, l, code, first, index) ==
    IF l > 15 THEN [sym |-> -1, n |-> 0]
    ELSE LET c == code + Bit(s, i + l - 1)
             count == vlc.count[l]
         IN IF c - count < first
            THEN [sym |-> vlc.symbol[index + (c - first) + 1], n |-> l]
            ELSE get_vlc2(s, i, vlc, l + 1, 2 * c, 2 * (first + count), index + count)

decode_symbol(s, i, t) == get_vlc2(s, i, t.vlc, 1, 0, 0, 0)

(***************************************************************************)
(* build_fixed_trees: the two tables of a fixed block.  outcome is what    *)
(* the allocator gives the two builds: "ok", or a failure of the first or  *)
(* of the second build_vlc.  ff_vlc_free leaves max_sym as it was.         *)
(***************************************************************************)
fixed_lsymbols ==
    [k \in 1 .. 288 |->
        IF k <= 24 THEN 256 + (k - 1)
        ELSE IF k <= 168 THEN k - 25
        ELSE IF k <= 176 THEN 280 + (k - 169)
        ELSE 144 + (k - 177)]

fixed_llens ==
    [k \in 1 .. 288 |-> IF k <= 24 THEN 7 ELSE IF k <= 176 THEN 8 ELSE 9]

fixed_dsymbols == [k \in 1 .. 32 |-> k - 1]

fixed_dlens == [k \in 1 .. 32 |-> 5]

build_fixed_trees(lt, dt, outcome) ==
    IF outcome = "lt_fail"
    THEN [ret |-> AVERROR_ENOMEM,
          lt |-> [max_sym |-> 285, vlc |-> NoVlc],
          dt |-> [max_sym |-> dt.max_sym, vlc |-> NoVlc]]
    ELSE IF outcome = "dt_fail"
    THEN [ret |-> AVERROR_ENOMEM,
          lt |-> [max_sym |-> 285, vlc |-> build_vlc(288, fixed_llens, fixed_lsymbols)],
          dt |-> [max_sym |-> 29, vlc |-> NoVlc]]
    ELSE [ret |-> 0,
          lt |-> [max_sym |-> 285, vlc |-> build_vlc(288, fixed_llens, fixed_lsymbols)],
          dt |-> [max_sym |-> 29, vlc |-> build_vlc(32, fixed_dlens, fixed_dsymbols)]]

(***************************************************************************)
(* build_tree: a table from the code lengths lengths[0 .. num-1] (a        *)
(* sequence here, entry i at lengths[i + 1]).  A length above 15 indexes   *)
(* counts[16] out of bounds: the result carries ub.                        *)
(***************************************************************************)
RECURSIVE SortedSeq(_)
SortedSeq(S) ==
    IF S = {} THEN <<>>
    ELSE LET m == CHOOSE a \in S : \A b \in S : a <= b
         IN <<m>> \o SortedSeq(S \ {m})

Used(lengths, num) == {k \in 0 .. num - 1 : At(lengths, k) # 0}

\* the available-slot loop of build_tree, from length i on; -1 when over-subscribed
RECURSIVE tree_available(_, _, _)
tree_available(counts, i, available) ==
    IF i > 15 THEN available
    ELSE IF counts[i] > available THEN -1
    ELSE tree_available(counts, i + 1, 2 * (available - counts[i]))

RECURSIVE tree_order(_, _, _)
tree_order(lengths, used, l) ==
    IF l > 15 THEN <<>>
    ELSE SortedSeq({k \in used : At(lengths, k) = l}) \o tree_order(lengths, used, l + 1)

\* a check that also turns down an array without a used symbol
tree_incomplete_no_empty(num_codes, available, count1) ==
    num_codes = 0 \/ (num_codes > 1 /\ available > 0) \/ (num_codes = 1 /\ count1 # 1)

\* a check that lets an under-subscribed code through
tree_incomplete_lenient(num_codes, available, count1) == num_codes = 1 /\ count1 # 1

\* lines 231-232: the code leaves slots unused, or is one code not of length 1
tree_incomplete(num_codes, available, count1) ==
    (num_codes > 1 /\ available > 0) \/ (num_codes = 1 /\ count1 # 1)

\* lines 231-248, with what the loops of lines 210-229 and 235-243 computed
tree_built(lengths, used, max_sym, counts, num_codes, available, order) ==
    IF \E k \in used : At(lengths, k) > 15
    THEN [ret |-> 0, ub |-> TRUE, t |-> [max_sym |-> max_sym, vlc |-> NoVlc]]
    ELSE IF available < 0
    THEN [ret |-> AVERROR_INVALIDDATA, ub |-> FALSE, t |-> [max_sym |-> max_sym, vlc |-> NoVlc]]
    ELSE IF tree_incomplete(num_codes, available, counts[1])
    THEN [ret |-> AVERROR_INVALIDDATA, ub |-> FALSE, t |-> [max_sym |-> max_sym, vlc |-> NoVlc]]
    ELSE [ret |-> 0, ub |-> FALSE,
          t |-> [max_sym |-> max_sym,
                 vlc |-> build_vlc(num_codes,
                                   IF num_codes = 1
                                   THEN <<At(lengths, order[1]), 0>>
                                   ELSE [k \in 1 .. num_codes |-> At(lengths, order[k])],
                                   IF num_codes = 1
                                   THEN order \o <<max_sym + 1>>
                                   ELSE order)]]

\* lines 217-229, with the counts of lines 210-215
tree_counted(lengths, used, counts) ==
    tree_built(lengths, used,
               IF used = {} THEN -1 ELSE CHOOSE a \in used : \A b \in used : b <= a,
               counts, Cardinality(used), tree_available(counts, 0, 1),
               tree_order(lengths, used, 1))

\* lines 210-215, with the symbols that have a code
tree_used(lengths, used) ==
    tree_counted(lengths, used,
                 [l \in 0 .. 15 |-> Cardinality({k \in used : At(lengths, k) = l})])

build_tree(t, lengths, num) == tree_used(lengths, Used(lengths, num))

(***************************************************************************)
(* decode_trees: the header of a dynamic block, read at bit position i.    *)
(***************************************************************************)
ZeroLengths == [k \in 1 .. 320 |-> 0]

RECURSIVE read_clens(_, _, _, _, _)
read_clens(s, i, lengths, k, hclen) ==
    IF k >= hclen THEN lengths
    ELSE read_clens(s, i + 3,
                    [lengths EXCEPT ![At(len_recode, k) + 1] = show_bits(s, i, 3)],
                    k + 1, hclen)

\* the code-length loop of decode_trees (lines 284-315); lengths holds the
\* entries 0 .. num-1 written so far.  read_lengths_some runs at most fuel
\* iterations of the loop and says whether the loop goes on (more)
RECURSIVE read_lengths_some(_, _, _, _, _, _)
RECURSIVE read_lengths(_, _, _, _, _)

lengths_stop(g, lengths) ==
    [ret |-> AVERROR_INVALIDDATA, gb |-> g, lengths |-> lengths, more |-> FALSE]

\* lines 310-314: len copies of sym, the reader at j
write_lengths(s, j, lt, lengths, total, fuel, sym, n) ==
    IF n > total - Len(lengths) THEN lengths_stop(j, lengths)
    ELSE read_lengths_some(s, j, lt, lengths \o [k \in 1 .. n |-> sym], total, fuel - 1)

\* a repeat count of symbol 18 that starts from 3
repeat_base_same(sym) == IF sym \in {16, 17, 18} THEN 3 ELSE 1

\* lines 290-308: the extra bits, the base and the value a symbol repeats
repeat_bits(sym) == IF sym = 16 THEN 2 ELSE IF sym = 17 THEN 3 ELSE IF sym = 18 THEN 7 ELSE 0

repeat_base(sym) == IF sym = 16 THEN 3 ELSE IF sym = 17 THEN 3 ELSE IF sym = 18 THEN 11 ELSE 1

repeat_sym(sym, lengths) ==
    IF sym = 16 THEN lengths[Len(lengths)] ELSE IF sym \in {17, 18} THEN 0 ELSE sym % 256

\* lines 287-308: the symbol sym was decoded, the reader at j
read_length(s, j, lt, lengths, total, fuel, sym) ==
    IF sym > lt.max_sym THEN lengths_stop(j, lengths)
    ELSE IF sym = 16 /\ Len(lengths) = 0 THEN lengths_stop(j, lengths)
    ELSE write_lengths(s, j + repeat_bits(sym), lt, lengths, total, fuel,
                       repeat_sym(sym, lengths),
                       get_bits_base(s, j, repeat_bits(sym), repeat_base(sym)))

\* line 285: the symbol d was decoded at i
read_symbol(s, i, lt, lengths, total, fuel, d) ==
    read_length(s, i + d.n, lt, lengths, total, fuel, d.sym)

read_lengths_some(s, i, lt, lengths, total, fuel) ==
    IF Len(lengths) >= total
    THEN [ret |-> 0, gb |-> i, lengths |-> lengths, more |-> FALSE]
    ELSE IF fuel = 0 THEN [ret |-> 0, gb |-> i, lengths |-> lengths, more |-> TRUE]
    ELSE read_symbol(s, i, lt, lengths, total, fuel, decode_symbol(s, i, lt))

read_lengths_more(s, lt, total, r) ==
    IF r.more THEN read_lengths(s, r.gb, lt, r.lengths, total) ELSE r

read_lengths(s, i, lt, lengths, total) ==
    read_lengths_more(s, lt, total, read_lengths_some(s, i, lt, lengths, total, 16))

\* what decode_trees returns: ret, or undefined behaviour, the reader at g,
\* and the two trees as it leaves them
trees_result(r, u, g, lt, dt) == [ret |-> r, ub |-> u, gb |-> g, lt |-> lt, dt |-> dt]

\* line 326
trees_dt(g, lt, dt0, bd) ==
    IF bd.ub THEN trees_result(0, TRUE, g, lt, dt0)
    ELSE trees_result(bd.ret, FALSE, g, lt, bd.t)

\* lines 322-326
trees_lt(g, lengths, hlit, hdist, lt1, dt0, bl) ==
    IF bl.ub THEN trees_result(0, TRUE, g, lt1, dt0)
    ELSE IF bl.ret < 0 THEN trees_result(bl.ret, FALSE, g, bl.t, dt0)
    ELSE trees_dt(g, bl.t, dt0,
                  build_tree(dt0, SubSeq(lengths, hlit + 1, hlit + hdist), hdist))

\* a decoder that does not look for the code of symbol 256
trees_lengths_any(hlit, hdist, clt, lt1, dt0, r) ==
    IF r.ret < 0 THEN trees_result(r.ret, FALSE, r.gb, clt, dt0)
    ELSE trees_lt(r.gb, r.lengths, hlit, hdist, lt1, dt0, build_tree(lt1, r.lengths, hlit))

\* lines 284-326, with the outcome r of the code-length loop
trees_lengths(hlit, hdist, clt, lt1, dt0, r) ==
    IF r.ret < 0 THEN trees_result(r.ret, FALSE, r.gb, clt, dt0)
    ELSE IF At(r.lengths, 256) = 0
    THEN trees_result(AVERROR_INVALIDDATA, FALSE, r.gb, lt1, dt0)
    ELSE trees_lt(r.gb, r.lengths, hlit, hdist, lt1, dt0, build_tree(lt1, r.lengths, hlit))

\* lines 277-326, with the code-length tree cl, the reader at j
trees_cl(s, j, hlit, hdist, dt0, cl) ==
    IF cl.ret < 0 THEN trees_result(cl.ret, FALSE, j, cl.t, dt0)
    ELSE IF cl.t.max_sym = -1 THEN trees_result(AVERROR_INVALIDDATA, FALSE, j, cl.t, dt0)
    ELSE trees_lengths(hlit, hdist, cl.t, [max_sym |-> cl.t.max_sym, vlc |-> NoVlc], dt0,
                       read_lengths(s, j, cl.t, <<>>, hlit + hdist))

\* a header whose counts are not looked at
trees_header_unchecked(s, i, lt0, dt0, hlit, hdist, hclen) ==
    trees_cl(s, i + 14 + 3 * hclen, hlit, hdist, dt0,
             build_tree(lt0, read_clens(s, i + 14, ZeroLengths, 0, hclen), 19))

\* lines 268-326, with the three counts of the header
trees_header(s, i, lt0, dt0, hlit, hdist, hclen) ==
    IF hlit > 286 \/ hdist > 30
    THEN trees_result(AVERROR_INVALIDDATA, FALSE, i + 14, lt0, dt0)
    ELSE trees_cl(s, i + 14 + 3 * hclen, hlit, hdist, dt0,
                  build_tree(lt0, read_clens(s, i + 14, ZeroLengths, 0, hclen), 19))

decode_trees(s, i, lt, dt) ==
    trees_header(s, i,
                 [max_sym |-> lt.max_sym, vlc |-> NoVlc],
                 [max_sym |-> dt.max_sym, vlc |-> NoVlc],
                 get_bits_base(s, i, 5, 257),
                 get_bits_base(s, i + 5, 5, 1),
                 get_bits_base(s, i + 10, 4, 4))

(***************************************************************************)
(* The inputs.  A stream is described by its blocks, a block by its        *)
(* tokens; Encode writes the bytes a DEFLATE encoder emits for them, and   *)
(* Expand is the flat byte sequence they stand for.  The decoder sees      *)
(* only the bytes.                                                         *)
(***************************************************************************)
Lit(b) == [k |-> "lit", a |-> b, b |-> 0]

Match(l, d) == [k |-> "match", a |-> l, b |-> d]

Eob == [k |-> "eob", a |-> 0, b |-> 0]

Raw(sym) == [k |-> "raw", a |-> sym, b |-> 0]

\* a length symbol without extra bits and a distance symbol, as they are
RawPair(sym, dist) == [k |-> "rawpair", a |-> sym, b |-> dist]

MsbBits(code, n) == [j \in 1 .. n |-> (code \div Pow2(n - j)) % 2]

LsbBits(v, n) == [j \in 1 .. n |-> (v \div Pow2(j - 1)) % 2]

\* the code of the k-th symbol (from 0) of a table
RECURSIVE CodeAt(_, _, _, _, _)
CodeAt(vlc, k, l, first, index) ==
    IF k < index + vlc.count[l]
    THEN MsbBits(first + (k - index), l)
    ELSE CodeAt(vlc, k, l + 1, 2 * (first + vlc.count[l]), index + vlc.count[l])

CodeOf(t, sym) ==
    LET k == CHOOSE j \in 1 .. Len(t.vlc.symbol) : t.vlc.symbol[j] = sym
    IN CodeAt(t.vlc, k - 1, 1, 0, 0)

LengthIndex(l) ==
    CHOOSE i \in 0 .. 28 :
        /\ At(length_base, i) <= l
        /\ \A j \in 0 .. 28 : At(length_base, j) <= l => j <= i

DistIndex(d) ==
    CHOOSE i \in 0 .. 29 :
        /\ At(dist_base, i) <= d
        /\ \A j \in 0 .. 29 : At(dist_base, j) <= d => j <= i

TokBits(lt, dt, tok) ==
    IF tok.k = "lit" THEN CodeOf(lt, tok.a)
    ELSE IF tok.k = "eob" THEN CodeOf(lt, 256)
    ELSE IF tok.k = "raw" THEN CodeOf(lt, tok.a)
    ELSE IF tok.k = "rawpair" THEN CodeOf(lt, tok.a) \o CodeOf(dt, tok.b)
    ELSE LET li == LengthIndex(tok.a)
             di == DistIndex(tok.b)
         IN CodeOf(lt, 257 + li)
            \o LsbBits(tok.a - At(length_base, li), At(length_bits, li))
            \o CodeOf(dt, di)
            \o LsbBits(tok.b - At(dist_base, di), At(dist_bits, di))

RECURSIVE ToksBits(_, _, _)
ToksBits(lt, dt, toks) ==
    IF toks = <<>> THEN <<>>
    ELSE TokBits(lt, dt, Head(toks)) \o ToksBits(lt, dt, Tail(toks))

RECURSIVE BytesBits(_)
BytesBits(toks) ==
    IF toks = <<>> THEN <<>> ELSE LsbBits(Head(toks).a, 8) \o BytesBits(Tail(toks))

Zeros(n) == [j \in 1 .. n |-> 0]

\* a dynamic header: hlit, hdist, hclen, the code-length code cl (cl[s + 1] the
\* length of symbol s) and the run symbols that spell the lengths
RECURSIVE RunLengths(_, _)
RunLengths(runs, acc) ==
    IF runs = <<>> THEN acc
    ELSE LET r == Head(runs)
             more == IF r.sym = 16 THEN [j \in 1 .. 3 + r.extra |-> acc[Len(acc)]]
                     ELSE IF r.sym = 17 THEN Zeros(3 + r.extra)
                     ELSE IF r.sym = 18 THEN Zeros(11 + r.extra)
                     ELSE <<r.sym>>
         IN RunLengths(Tail(runs), acc \o more)

RECURSIVE RunsBits(_, _)
RunsBits(clt, runs) ==
    IF runs = <<>> THEN <<>>
    ELSE LET r == Head(runs)
             n == IF r.sym = 16 THEN 2 ELSE IF r.sym = 17 THEN 3
                  ELSE IF r.sym = 18 THEN 7 ELSE 0
         IN CodeOf(clt, r.sym) \o LsbBits(r.extra, n) \o RunsBits(clt, Tail(runs))

RECURSIVE ClBits(_, _, _)
ClBits(cl, k, hclen) ==
    IF k >= hclen THEN <<>>
    ELSE LsbBits(cl[At(len_recode, k) + 1], 3) \o ClBits(cl, k + 1, hclen)

DynLTree(d) == build_tree(NoTree, RunLengths(d.runs, <<>>), d.hlit).t

DynDTree(d) ==
    build_tree(NoTree, SubSeq(RunLengths(d.runs, <<>>), d.hlit + 1, d.hlit + d.hdist),
               d.hdist).t

DynBits(d) ==
    LsbBits(d.hlit - 257, 5) \o LsbBits(d.hdist - 1, 5) \o LsbBits(d.hclen - 4, 4)
    \o ClBits(d.cl, 0, d.hclen)
    \o RunsBits(build_tree(NoTree, d.cl, 19).t, d.runs)

\* the header bits and the two codes of a dynamic block
DynCode(d) == [bits |-> DynBits(d), lt |-> DynLTree(d), dt |-> DynDTree(d)]

\* the code of a fixed block
FixedCode == build_fixed_trees(NoTree, NoTree, "ok")

BlockBits(b, final, pos) ==
    LET head == <<final>> \o LsbBits(b.mode, 2)
        n == Len(b.toks)
        nlen == IF b.nlen_ok THEN 65535 - n ELSE n
    IN IF b.mode = 0
       THEN head \o LsbBits(b.pad, align_get_bits(pos + 3) - (pos + 3))
            \o LsbBits(n, 16) \o LsbBits(nlen, 16)
            \o BytesBits(SubSeq(b.toks, 1, n - b.short))
       ELSE IF b.mode = 1
       THEN head \o ToksBits(FixedCode.lt, FixedCode.dt, b.toks)
       ELSE IF b.mode = 2
       THEN head \o b.dyn.bits \o ToksBits(b.dyn.lt, b.dyn.dt, b.toks)
       ELSE head

\* framing: which blocks of a stream carry the final-block flag
Final(framing, k, n) ==
    IF framing = "last" THEN (IF k = n THEN 1 ELSE 0)
    ELSE IF framing = "first" THEN (IF k = 1 THEN 1 ELSE 0)
    ELSE 0

RECURSIVE StreamBits(_, _, _, _)
StreamBits(blocks, framing, k, acc) ==
    IF k > Len(blocks) THEN acc
    ELSE StreamBits(blocks, framing, k + 1,
                    acc \o BlockBits(blocks[k], Final(framing, k, Len(blocks)), Len(acc)))

Pack(bits) ==
    [k \in 1 .. (Len(bits) + 7) \div 8 |->
        LET b(j) == IF 8 * (k - 1) + j <= Len(bits) THEN bits[8 * (k - 1) + j] ELSE 0
        IN b(1) + 2 * b(2) + 4 * b(3) + 8 * b(4)
           + 16 * b(5) + 32 * b(6) + 64 * b(7) + 128 * b(8)]

Encode(in) == in.hdr \o Pack(StreamBits(in.blocks, in.framing, 1, <<>>)) \o in.trail

\* the flat bytes a list of tokens stands for after the bytes out
RECURSIVE ExpandMatch(_, _, _)
ExpandMatch(out, l, d) ==
    IF l = 0 THEN out ELSE ExpandMatch(Append(out, out[Len(out) + 1 - d]), l - 1, d)

RECURSIVE ExpandToks(_, _)
ExpandToks(out, toks) ==
    IF toks = <<>> THEN out
    ELSE LET t == Head(toks)
         IN IF t.k = "lit" THEN ExpandToks(Append(out, t.a), Tail(toks))
            ELSE IF t.k = "match" THEN ExpandToks(ExpandMatch(out, t.a, t.b), Tail(toks))
            ELSE ExpandToks(out, Tail(toks))

RECURSIVE Expand(_, _)
Expand(out, blocks) ==
    IF blocks = <<>> THEN out
    ELSE Expand(ExpandToks(out, Head(blocks).toks), Tail(blocks))

\* a token list is well formed after n bytes: literals and matches that reach
\* back at most to the first byte, then one end-of-block
RECURSIVE ToksValid(_, _)
ToksValid(n, toks) ==
    IF toks = <<>> THEN FALSE
    ELSE LET t == Head(toks)
         IN IF t.k = "eob" THEN Tail(toks) = <<>>
            ELSE IF t.k = "lit" THEN ToksValid(n + 1, Tail(toks))
            ELSE IF t.k = "match" THEN t.b <= n /\ ToksValid(n + t.a, Tail(toks))
            ELSE FALSE

RECURSIVE BlocksValid(_, _)
BlocksValid(n, blocks) ==
    IF blocks = <<>> THEN TRUE
    ELSE LET b == Head(blocks)
             ok == IF b.mode = 0 THEN b.nlen_ok /\ b.short = 0
                   ELSE IF b.mode \in {1, 2} THEN ToksValid(n, b.toks)
                   ELSE FALSE
         IN ok /\ BlocksValid(Len(ExpandToks(Zeros(n), b.toks)), Tail(blocks))

\* a valid DEFLATE stream: valid blocks, the last one and no other final
ValidStream(in) ==
    /\ in.framing = "last"
    /\ Len(in.blocks) >= 1
    /\ BlocksValid(0, in.blocks)

(***************************************************************************)
(* The blocks the inputs are made of.                                      *)
(***************************************************************************)
NoDyn == [bits |-> <<>>, lt |-> NoTree, dt |-> NoTree]

\* pad: the value of the bits between the header of a stored block and the
\* next byte boundary; short: the bytes of a stored block that LEN counts
\* and the stream does not hold
Block(mode, toks, ok, dyn) ==
    [mode |-> mode, toks |-> toks, nlen_ok |-> ok, dyn |-> dyn, pad |-> 0, short |-> 0]

Fixed(toks) == Block(1, toks, TRUE, NoDyn)

Stored(toks, ok) == Block(0, toks, ok, NoDyn)

StoredAs(toks, pad, short) == [Stored(toks, TRUE) EXCEPT !.pad = pad, !.short = short]

Dynamic(d, toks) == Block(2, toks, TRUE, d)

Reserved == Block(3, <<>>, TRUE, NoDyn)

Run(sym, extra) == [sym |-> sym, extra |-> extra]

\* literal 65 with a 1-bit code, 256 and 257 (length 3) with 2-bit codes,
\* one distance code (distance 1) of length 1
DynA ==
    [hlit |-> 258, hdist |-> 1, hclen |-> 18,
     cl |-> [s \in 1 .. 19 |-> IF s = 19 THEN 1 ELSE IF s \in {2, 3} THEN 2 ELSE 0],
     runs |-> <<Run(18, 54), Run(1, 0), Run(18, 127), Run(18, 41),
                Run(2, 0), Run(2, 0), Run(1, 0)>>]

F_A == Fixed(<<Lit(65), Eob>>)

F_lits == Fixed(<<Lit(65), Lit(66), Lit(65), Lit(66), Eob>>)

F_run == Fixed(<<Lit(65), Match(10, 1), Eob>>)

F_ovl == Fixed(<<Lit(65), Lit(66), Match(5, 2), Eob>>)

F_back == Fixed(<<Match(3, 1), Eob>>)

F_286 == Fixed(<<Lit(66), Raw(286), Eob>>)

F_noeob == Fixed(<<Lit(66)>>)

S_AB == Stored(<<Lit(65), Lit(66)>>, TRUE)

S_0 == Stored(<<>>, TRUE)

S_bad == Stored(<<Lit(65)>>, FALSE)

CodeA == DynCode(DynA)

D_A3 == Dynamic(CodeA, <<Lit(65), Match(3, 1), Eob>>)

\* HLIT = 257 with 256 (length 1) the only literal/length code, HDIST = 1 with
\* no distance code
DynEob ==
    [hlit |-> 257, hdist |-> 1, hclen |-> 18,
     cl |-> [s \in 1 .. 19 |-> IF s = 19 THEN 1 ELSE IF s \in {1, 2} THEN 2 ELSE 0],
     runs |-> <<Run(18, 127), Run(18, 107), Run(1, 0), Run(0, 0)>>]

CodeEob == DynCode(DynEob)

D_EOB == Dynamic(CodeEob, <<Eob>>)

\* literals 65 and 66 with 1-bit codes and no code for 256, one distance code
DynNoEob ==
    [hlit |-> 257, hdist |-> 1, hclen |-> 18,
     cl |-> [s \in 1 .. 19 |-> IF s = 19 THEN 1 ELSE IF s \in {2, 3} THEN 2 ELSE 0],
     runs |-> <<Run(18, 54), Run(1, 0), Run(1, 0), Run(18, 127), Run(18, 41), Run(1, 0)>>]

CodeNoEob == DynCode(DynNoEob)

D_NOEOB == Dynamic(CodeNoEob, <<Lit(65), Lit(66)>>)

\* 256 and 257 with 1-bit codes and no distance code
DynNoDist ==
    [hlit |-> 258, hdist |-> 1, hclen |-> 18,
     cl |-> [s \in 1 .. 19 |-> IF s = 19 THEN 1 ELSE IF s \in {1, 2} THEN 2 ELSE 0],
     runs |-> <<Run(18, 127), Run(18, 107), Run(1, 0), Run(1, 0), Run(0, 0)>>]

D_NODIST == Dynamic(DynCode(DynNoDist), <<Raw(257), Eob>>)

\* a fixed block with distance symbol 30, and one with distance symbol 31
F_d30 == Fixed(<<Lit(66), RawPair(257, 30), Eob>>)

F_d31 == Fixed(<<Lit(66), RawPair(257, 31), Eob>>)

F_287 == Fixed(<<Lit(66), Raw(287), Eob>>)

\* a stored block with LEN = 2 of which the stream holds one byte
S_cut == StoredAs(<<Lit(65), Lit(66)>>, 0, 1)

\* a stored block with LEN = 1 after the padding bits 1, 1, 1, 1, 0: as the
\* first block of a stream, not final, it starts with the bytes 0x78 0x01
S_pad == StoredAs(<<Lit(65)>>, 15, 0)

(***************************************************************************)
(* The calls the caller makes: the bytes of a stream, and a raster.        *)
(***************************************************************************)
MaxBlocks == 2

MaxCalls == 3

AllBodies ==
    {F_A, F_lits, F_run, F_ovl, F_back, F_286, F_noeob, S_AB, S_0, S_bad, D_A3, Reserved}

FewBodies == {F_A, F_lits, S_AB, D_A3}

BlockSeqs(B, n) == UNION {[1 .. k -> B] : k \in 1 .. n}

\* two bytes in front of the stream: a zlib header, one with window field 8,
\* one with a wrong check value, one with method 9
ZlibHeader == <<120, 1>>

Headers == {ZlibHeader, <<136, 28>>, <<120, 2>>, <<121, 24>>}

Trailer == <<1, 2, 3, 4>>

Geoms == {[w |-> 2, h |-> 2, ls |-> 3], [w |-> 4, h |-> 3, ls |-> 5]}

In(hdr, blocks, framing, trail, g) ==
    [hdr |-> hdr, blocks |-> blocks, framing |-> framing, trail |-> trail, g |-> g]

NoInput == In(<<>>, <<>>, "none", <<>>, [w |-> 1, h |-> 1, ls |-> 1])

SingleInputs ==
    {In(<<>>, bs, "last", Trailer, g) : bs \in BlockSeqs(AllBodies, MaxBlocks), g \in Geoms}
    \cup {In(<<>>, bs, f, Trailer, g) :
            bs \in BlockSeqs(FewBodies, MaxBlocks), f \in {"none", "first"}, g \in Geoms}
    \cup {In(h, bs, "last", Trailer, g) :
            h \in Headers, bs \in BlockSeqs(FewBodies, MaxBlocks), g \in Geoms}
    \cup {In(<<>>, bs, "last", <<>>, g) : bs \in BlockSeqs(FewBodies, MaxBlocks), g \in Geoms}
    \cup {In(<<>>, bs, "last", Trailer, g) :
            bs \in BlockSeqs({F_A, D_EOB, D_NOEOB}, MaxBlocks), g \in Geoms}
    \cup {In(<<>>, bs, "none", Trailer, g) :
            bs \in BlockSeqs({F_A, Reserved}, MaxBlocks), g \in Geoms}
    \cup {In(<<>>, <<b>>, "last", Trailer, g) :
            b \in {D_NODIST, F_d30, F_d31, F_287}, g \in Geoms}
    \cup {In(<<>>, <<S_cut>>, "last", t, g) : t \in {<<>>, Trailer}, g \in Geoms}
    \cup {In(h, <<S_pad, F_A>>, "last", Trailer, g) : h \in {<<>>, ZlibHeader}, g \in Geoms}

SessionInputs ==
    {In(<<>>, <<b>>, "last", Trailer, [w |-> 2, h |-> 2, ls |-> 3]) :
        b \in {F_A, F_lits, F_back, D_A3, S_AB}}
    \cup {In(ZlibHeader, <<F_A, F_run>>, "last", Trailer, [w |-> 4, h |-> 3, ls |-> 5])}

InputsOf(p) == IF p = "session" THEN SessionInputs ELSE SingleInputs

(***************************************************************************)
(* The raster.  A cell ff_inflate has not written in this call holds       *)
(* Untouched.                                                              *)
(***************************************************************************)
Untouched == 256

BlankRaster(h, ls) == [r \in 0 .. h - 1 |-> [c \in 0 .. ls - 1 |-> Untouched]]

\* the raster after n bytes b(0) .. b(n-1) are stored at row r from column c
StoreBytes(ras, r, c, n, b(_)) ==
    [ras EXCEPT ![r] = [cc \in DOMAIN ras[r] |->
                          IF cc >= c /\ cc < c + n THEN b(cc - c) ELSE ras[r][cc]]]

\* the raster read back in raster-scan order, up to the first n bytes
Scan(ras, w, n) == [k \in 1 .. n |-> ras[(k - 1) \div w][(k - 1) % w]]

NoWrite == [y |-> 0, x |-> 0, n |-> 0]

NoFresh == [input |-> NoInput, result |-> 0, raster |-> <<>>, set |-> FALSE]

NoRef == [k |-> 0, d |-> 0, l |-> 0]

\* the observations of a call: block headers read, symbols decoded and bytes
\* output so far, the last write, whether a write filled the raster (full),
\* did so before the end of its block (mid), whether a literal that filled
\* the raster ended the symbol loop (cut), the last back-reference (ref: the
\* bytes out before it, its distance and length), the bit position after
\* the last block (endpos); of the session: the calls made, the calls and
\* the successes of build_fixed_trees, and what the first call returned
NewProbe(p, in) ==
    [p EXCEPT !.input = in, !.hdrs = 0, !.syms = 0, !.out = 0, !.wr = NoWrite,
              !.full = FALSE, !.mid = FALSE, !.cut = FALSE, !.ref = NoRef,
              !.endpos = 0, !.calls = p.calls + 1]

\* what the first call on the session returned
Fresh(p, res, ras) ==
    IF p.fresh.set THEN p.fresh
    ELSE [input |-> p.input, result |-> res, raster |-> ras, set |-> TRUE]

InitWith(p, n, a) ==
    /\ pc = "idle"
    /\ src = <<>>
    /\ width = 1 /\ height = 1 /\ linesize = 1
    /\ raster = BlankRaster(1, 1)
    /\ gb = 0
    /\ sx = 0 /\ sy = 0 /\ x = 0 /\ y = 0
    /\ len = 0 /\ offs_x = 0 /\ offs_y = 0
    /\ tree = "none"
    /\ bfinal = 0 /\ bmode = 0 /\ ret = 0
    /\ fixed_cb_initialized = 0
    /\ fixed_ltree = [max_sym |-> 0, vlc |-> NoVlc]
    /\ fixed_dtree = [max_sym |-> 0, vlc |-> NoVlc]
    /\ dynamic_ltree = [max_sym |-> 0, vlc |-> NoVlc]
    /\ dynamic_dtree = [max_sym |-> 0, vlc |-> NoVlc]
    /\ result = 0
    /\ calls_left = n
    /\ pool = p
    /\ alloc = a
    /\ probe = [input |-> NoInput, hdrs |-> 0, syms |-> 0, out |-> 0, wr |-> NoWrite,
                full |-> FALSE, mid |-> FALSE, cut |-> FALSE, ref |-> NoRef,
                endpos |-> 0, calls |-> 0,
                builds |-> 0, build_calls |-> 0, fresh |-> NoFresh]

\* one call on a fresh session, the allocator never failing
Init == InitWith("single", 1, {"ok"})

\* MaxCalls calls on one session, any build of the fixed tables may fail
InitSession == InitWith("session", MaxCalls, {"ok", "lt_fail", "dt_fail"})

args == <<src, width, height, linesize>>

trees == <<fixed_cb_initialized, fixed_ltree, fixed_dtree, dynamic_ltree, dynamic_dtree>>

caller == <<calls_left, pool, alloc>>

copyv == <<len, offs_x, offs_y>>

(***************************************************************************)
(* ff_inflate, lines 363-379: reset the cursor, set up the bit reader and  *)
(* skip a zlib header.                                                     *)
(***************************************************************************)
is_zlib_header(hdr) ==
    LET cm == hdr % 16
        cinfo == (hdr \div 16) % 8
    IN cm = 8 /\ cinfo <= 7 /\ av_bswap16(hdr) % 31 = 0

\* a call that starts from the cursor the last call left
start_cursor_kept(old) == old

\* lines 363-364: the cursor a call starts from, whatever the last call left
start_cursor(old) == 0

ff_inflate_begin ==
    /\ pc \in {"idle", "done"}
    /\ calls_left > 0
    /\ \E in \in InputsOf(pool) :
        LET bytes == Encode(in)
        IN /\ src' = bytes
           /\ width' = in.g.w /\ height' = in.g.h /\ linesize' = in.g.ls
           /\ raster' = BlankRaster(in.g.h, in.g.ls)
           /\ gb' = IF is_zlib_header(show_bits(bytes, 0, 16)) THEN 16 ELSE 0
           /\ probe' = NewProbe(probe, in)
    /\ sx' = start_cursor(sx) /\ sy' = start_cursor(sy)
    /\ x' = 0 /\ y' = 0
    /\ len' = 0 /\ offs_x' = 0 /\ offs_y' = 0
    /\ tree' = "none"
    /\ bfinal' = 0 /\ bmode' = 0 /\ ret' = 0
    /\ result' = 0
    /\ calls_left' = calls_left - 1
    /\ pc' = "block"
    /\ UNCHANGED <<trees, pool, alloc>>

(***************************************************************************)
(* ff_inflate, lines 384-393 and 416-417: a block header.  A stored block  *)
(* also reads LEN and NLEN here; a mismatch and block type 3 return at     *)
(* once.                                                                   *)
(***************************************************************************)
\* a stored block whose NLEN field is not looked at
stored_header_any(l, inv_len) == TRUE

\* line 392: (len ^ inv_len) == 0xFFFF, bit by bit
stored_header_ok(l, inv_len) ==
    \A k \in 0 .. 15 : (l \div Pow2(k)) % 2 # (inv_len \div Pow2(k)) % 2

\* a switch that takes block type 3 for a dynamic block
block_kind_no_reserved(mode) ==
    IF mode = 0 THEN "stored" ELSE IF mode = 1 THEN "fixed" ELSE "dynamic"

\* lines 387-418: the case of the switch a block type selects
block_kind(mode) ==
    IF mode = 0 THEN "stored"
    ELSE IF mode = 1 THEN "fixed"
    ELSE IF mode = 2 THEN "dynamic"
    ELSE "reserved"

read_block_header ==
    /\ pc = "block"
    /\ LET mode == show_bits(src, gb + 1, 2)
           a == align_get_bits(gb + 3)
           l == show_bits(src, a, 16)
           inv_len == show_bits(src, a + 16, 16)
       IN /\ bfinal' = Bit(src, gb)
          /\ bmode' = mode
          /\ IF block_kind(mode) = "stored"
             THEN /\ gb' = a + 32
                  /\ IF ~stored_header_ok(l, inv_len)
                     THEN pc' = "done" /\ result' = AVERROR_INVALIDDATA /\ len' = len
                     ELSE pc' = "stored" /\ len' = l /\ result' = result
             ELSE /\ gb' = gb + 3
                  /\ len' = len
                  /\ IF block_kind(mode) = "reserved"
                     THEN pc' = "done" /\ result' = AVERROR_INVALIDDATA
                     ELSE pc' = block_kind(mode) /\ result' = result
          /\ probe' = [probe EXCEPT !.hdrs = @ + 1,
                                    !.fresh = IF pc' = "done"
                                              THEN Fresh(probe, result', raster) ELSE @]
    /\ UNCHANGED <<args, raster, sx, sy, x, y, offs_x, offs_y, tree, ret, trees, caller>>

(***************************************************************************)
(* ff_inflate, lines 395-408: one iteration of the stored-block copy, or   *)
(* the end of the loop.  A write to a row at or beyond height, or a read   *)
(* beyond the input, is undefined: the call ends in "ub".                  *)
(***************************************************************************)
\* a cursor that moves to the next row one byte late
row_wrap_late(nx, w) == nx > w

\* lines 122, 174 and 401: the cursor moved to column nx leaves the row
row_wrap(nx, w) == nx >= w

\* a stored chunk that is not clamped to the end of the row
stored_ilen_unclamped(w, px, l) == l

\* line 396: the length of a chunk of a stored block
stored_ilen(w, px, l) == Min(w - px, l)

stored_copy ==
    /\ pc = "stored"
    /\ IF len > 0
       THEN LET ilen == stored_ilen(width, sx, len)
                from == gb \div 8
                nx == sx + ilen
            IN /\ probe' = [probe EXCEPT !.wr = [y |-> sy, x |-> sx, n |-> ilen],
                                         !.out = @ + ilen,
                                         !.full = @ \/ (row_wrap(nx, width) /\ sy + 1 >= height),
                                         !.mid = @ \/ (row_wrap(nx, width) /\ sy + 1 >= height
                                                        /\ len - ilen > 0)]
               /\ IF sy >= height \/ from + ilen > Len(src)
                  THEN /\ pc' = "ub"
                       /\ UNCHANGED <<raster, sx, sy, len, gb>>
                  ELSE /\ raster' = StoreBytes(raster, sy, sx, ilen,
                                               LAMBDA k : src[from + k + 1])
                       /\ sx' = (IF row_wrap(nx, width) THEN 0 ELSE nx)
                       /\ sy' = (IF row_wrap(nx, width) THEN sy + 1 ELSE sy)
                       /\ len' = len - ilen
                       /\ gb' = gb + 8 * ilen
                       /\ pc' = "stored"
       ELSE /\ pc' = "block_end"
            /\ UNCHANGED <<raster, sx, sy, len, gb, probe>>
    /\ UNCHANGED <<args, x, y, offs_x, offs_y, tree, bfinal, bmode, ret, result, trees, caller>>

(***************************************************************************)
(* inflate_fixed_block, lines 329-341, up to the first symbol of           *)
(* inflate_block_data (lines 108-113).                                     *)
(***************************************************************************)
\* a flag that is never set
cb_never_set(r) == 0

\* lines 334-337: the flag after build_fixed_trees returned r
cb_after_build(r) == IF r < 0 THEN 0 ELSE 1

inflate_fixed_block ==
    /\ pc = "fixed"
    /\ IF fixed_cb_initialized = 0
       THEN \E o \in alloc :
              LET r == build_fixed_trees(fixed_ltree, fixed_dtree, o)
              IN /\ fixed_ltree' = r.lt
                 /\ fixed_dtree' = r.dt
                 /\ probe' = [probe EXCEPT !.build_calls = @ + 1,
                                           !.builds = IF r.ret < 0 THEN @ ELSE @ + 1]
                 /\ fixed_cb_initialized' = cb_after_build(r.ret)
                 /\ IF r.ret < 0
                    THEN /\ ret' = r.ret
                         /\ pc' = "block_end"
                         /\ UNCHANGED <<x, y, tree>>
                    ELSE /\ x' = sx /\ y' = sy
                         /\ tree' = "fixed"
                         /\ pc' = "symbol"
                         /\ ret' = ret
       ELSE /\ x' = sx /\ y' = sy
            /\ tree' = "fixed"
            /\ pc' = "symbol"
            /\ UNCHANGED <<fixed_cb_initialized, fixed_ltree, fixed_dtree, probe, ret>>
    /\ UNCHANGED <<args, raster, gb, sx, sy, copyv, bfinal, bmode, result,
                   dynamic_ltree, dynamic_dtree, caller>>

(***************************************************************************)
(* inflate_dynamic_block, lines 343-351, up to the first symbol of         *)
(* inflate_block_data.                                                     *)
(***************************************************************************)
inflate_dynamic_block ==
    /\ pc = "dynamic"
    /\ \E r \in {decode_trees(src, gb, dynamic_ltree, dynamic_dtree)} :
          /\ gb' = r.gb
          /\ dynamic_ltree' = r.lt
          /\ dynamic_dtree' = r.dt
          /\ IF r.ub
             THEN pc' = "ub" /\ UNCHANGED <<ret, x, y, tree>>
             ELSE IF r.ret < 0
             THEN ret' = r.ret /\ pc' = "block_end" /\ UNCHANGED <<x, y, tree>>
             ELSE /\ x' = sx /\ y' = sy
                  /\ tree' = "dynamic"
                  /\ pc' = "symbol"
                  /\ ret' = ret
    /\ UNCHANGED <<args, raster, sx, sy, copyv, bfinal, bmode, result,
                   fixed_cb_initialized, fixed_ltree, fixed_dtree, caller, probe>>

(***************************************************************************)
(* inflate_block_data, lines 116-166: one iteration of the symbol loop,    *)
(* up to the copy loop of a back-reference.  Leaving through line 137 or   *)
(* through fail: saves the cursor and hands ret to ff_inflate.             *)
(***************************************************************************)
Lt == IF tree = "fixed" THEN fixed_ltree ELSE dynamic_ltree

Dt == IF tree = "fixed" THEN fixed_dtree ELSE dynamic_dtree

\* return from inflate_block_data with the cursor (cx, cy) and the value r
block_return(cx, cy, r) ==
    /\ sx' = cx /\ sy' = cy
    /\ ret' = r
    /\ pc' = "block_end"

\* a test that does not look at the distance table
length_sym_bad_any_dt(sym, lt_max, dt_max) == sym > lt_max \/ sym - 257 > 28

\* line 140: a length symbol that is turned down
length_sym_bad(sym, lt_max, dt_max) == sym > lt_max \/ sym - 257 > 28 \/ dt_max = -1

\* line 152: a distance symbol that is turned down
dist_sym_bad(dist, dt_max) == dist > dt_max \/ dist > 29

inflate_symbol ==
    /\ pc = "symbol"
    /\ LET d == decode_symbol(src, gb, Lt)
           sym == d.sym
           g1 == gb + d.n
       IN IF sym < 256
          THEN \* lines 118-128: a literal
               LET nx == x + 1
                   wrap == row_wrap(nx, width)
                   ny == IF wrap THEN y + 1 ELSE y
               IN /\ probe' = [probe EXCEPT !.syms = @ + 1,
                                            !.wr = [y |-> y, x |-> x, n |-> 1],
                                            !.out = @ + 1,
                                            !.full = @ \/ (wrap /\ ny >= height),
                                            !.mid = @ \/ (wrap /\ ny >= height),
                                            !.cut = @ \/ (wrap /\ ny >= height
                                                           /\ y < height)]
                  /\ IF y >= height
                     THEN /\ pc' = "ub"
                          /\ UNCHANGED <<raster, gb, x, y, sx, sy, ret>>
                     ELSE /\ raster' = StoreBytes(raster, y, x, 1, LAMBDA k : sym % 256)
                          /\ gb' = g1
                          /\ x' = (IF wrap THEN 0 ELSE nx)
                          /\ y' = ny
                          /\ IF wrap /\ ny >= height
                             THEN block_return(0, ny, 0)
                             ELSE pc' = "symbol" /\ UNCHANGED <<sx, sy, ret>>
                  /\ UNCHANGED copyv
          ELSE IF sym = 256
          THEN \* lines 133-138: end of block
               /\ probe' = [probe EXCEPT !.syms = @ + 1]
               /\ gb' = g1
               /\ block_return(x, y, 0)
               /\ UNCHANGED <<raster, x, y, copyv>>
          ELSE IF length_sym_bad(sym, Lt.max_sym, Dt.max_sym)
          THEN \* lines 140-143
               /\ probe' = [probe EXCEPT !.syms = @ + 1]
               /\ gb' = g1
               /\ block_return(x, y, AVERROR_INVALIDDATA)
               /\ UNCHANGED <<raster, x, y, copyv>>
          ELSE \* lines 145-166: a length and a distance
               LET li == sym - 257
                   l == get_bits_base(src, g1, At(length_bits, li), At(length_base, li))
                   g2 == g1 + At(length_bits, li)
                   dd == decode_symbol(src, g2, Dt)
                   dist == dd.sym
                   g3 == g2 + dd.n
                   offs == y * width + x
                           - get_bits_base(src, g3, At(dist_bits, dist), At(dist_base, dist))
                   start == dist <= Dt.max_sym /\ dist <= 29 /\ dist >= 0 /\ offs >= 0
               IN /\ probe' = [probe EXCEPT !.syms = @ + 1,
                                            !.ref = IF start
                                                    THEN [k |-> y * width + x,
                                                          d |-> y * width + x - offs,
                                                          l |-> l]
                                                    ELSE @]
                  /\ UNCHANGED <<raster, x, y>>
                  /\ IF dist_sym_bad(dist, Dt.max_sym)
                     THEN /\ gb' = g3
                          /\ block_return(x, y, AVERROR_INVALIDDATA)
                          /\ UNCHANGED copyv
                     ELSE IF dist < 0
                     THEN \* dist_bits[-1]: a read outside the table
                          /\ pc' = "ub"
                          /\ UNCHANGED <<gb, sx, sy, ret, copyv>>
                     ELSE IF offs < 0
                     THEN /\ gb' = g3 + At(dist_bits, dist)
                          /\ block_return(x, y, AVERROR_INVALIDDATA)
                          /\ UNCHANGED copyv
                     ELSE /\ gb' = g3 + At(dist_bits, dist)
                          /\ len' = l
                          /\ offs_y' = offs \div width
                          /\ offs_x' = offs % width
                          /\ pc' = "copy"
                          /\ UNCHANGED <<sx, sy, ret>>
    /\ UNCHANGED <<args, tree, bfinal, bmode, result, trees, caller>>

(***************************************************************************)
(* inflate_block_data, lines 168-190: one iteration of the copy loop of a  *)
(* back-reference, or its end.  The break of line 179 leaves the copy      *)
(* loop only; the symbol loop goes on.                                     *)
(***************************************************************************)
FFMIN3(a, b, c) == Min(Min(a, b), c)

\* a chunk that is not clamped to the distance between source and destination
copy_ilen_bulk(px, py, ox, oy, l, w) == FFMIN3(w - px, w - ox, l)

\* line 169: the length of a chunk of a back-reference
copy_ilen(px, py, ox, oy, l, w) ==
    Min(FFMIN3(w - px, w - ox, l), Abs(ox - px) + (py - oy) * w)

inflate_copy ==
    /\ pc = "copy"
    /\ IF len > 0
       THEN LET ilen == copy_ilen(x, y, offs_x, offs_y, len, width)
                nx == x + ilen
                wrap == row_wrap(nx, width)
                ny == IF wrap THEN y + 1 ELSE y
                nox == offs_x + ilen
            IN /\ probe' = [probe EXCEPT !.wr = [y |-> y, x |-> x, n |-> ilen],
                                         !.out = @ + ilen,
                                         !.full = @ \/ (wrap /\ ny >= height),
                                         !.mid = @ \/ (wrap /\ ny >= height)]
               /\ IF y >= height
                  THEN /\ pc' = "ub"
                       /\ UNCHANGED <<raster, x, y, copyv>>
                  ELSE /\ raster' = StoreBytes(raster, y, x, ilen,
                                               LAMBDA k : raster[offs_y][offs_x + k])
                       /\ x' = (IF wrap THEN 0 ELSE nx)
                       /\ y' = ny
                       /\ IF wrap /\ ny >= height
                          THEN pc' = "symbol" /\ UNCHANGED copyv
                          ELSE /\ offs_x' = (IF nox >= width THEN 0 ELSE nox)
                               /\ offs_y' = (IF nox >= width THEN offs_y + 1 ELSE offs_y)
                               /\ len' = len - ilen
                               /\ pc' = "copy"
       ELSE /\ pc' = "symbol"
            /\ UNCHANGED <<raster, x, y, copyv, probe>>
    /\ UNCHANGED <<args, gb, sx, sy, tree, bfinal, bmode, ret, result, trees, caller>>

(***************************************************************************)
(* ff_inflate, lines 420-427: the checks after a block.                    *)
(***************************************************************************)
\* a loop that ends after its first block, final or not
after_block_once(r, left, final) ==
    IF r < 0 THEN [pc |-> "exit", ret |-> r]
    ELSE IF left < 0 THEN [pc |-> "exit", ret |-> AVERROR_INVALIDDATA]
    ELSE [pc |-> "exit", ret |-> r]

\* a loop that does not look at the bits left after a block
after_block_no_overrun(r, left, final) ==
    IF r < 0 THEN [pc |-> "exit", ret |-> r]
    ELSE IF final = 0 THEN [pc |-> "block", ret |-> r]
    ELSE [pc |-> "exit", ret |-> r]

\* a loop that does not look at ret after a block
after_block_unchecked(r, left, final) ==
    IF left < 0 THEN [pc |-> "exit", ret |-> AVERROR_INVALIDDATA]
    ELSE IF final = 0 THEN [pc |-> "block", ret |-> r]
    ELSE [pc |-> "exit", ret |-> r]

\* where the loop goes after a block that left ret = r, with left bits left
after_block(r, left, final) ==
    IF r < 0 THEN [pc |-> "exit", ret |-> r]
    ELSE IF left < 0 THEN [pc |-> "exit", ret |-> AVERROR_INVALIDDATA]
    ELSE IF final = 0 THEN [pc |-> "block", ret |-> r]
    ELSE [pc |-> "exit", ret |-> r]

block_end ==
    /\ pc = "block_end"
    /\ pc' = after_block(ret, get_bits_left(src, gb), bfinal).pc
    /\ ret' = after_block(ret, get_bits_left(src, gb), bfinal).ret
    /\ probe' = [probe EXCEPT !.endpos = gb]
    /\ UNCHANGED <<args, raster, gb, sx, sy, x, y, copyv, tree, bfinal, bmode, result,
                   trees, caller>>

(***************************************************************************)
(* ff_inflate, lines 429-435: the return.                                  *)
(***************************************************************************)
\* a count that leaves out the trailing field
bytes_consumed_no_trailer(i) == align_get_bits(i) \div 8

\* lines 432-435: the bytes consumed when the loop ended at bit position i
bytes_consumed(i) == (align_get_bits(i) + 32) \div 8

ff_inflate_return ==
    /\ pc = "exit"
    /\ IF ret < 0
       THEN result' = ret /\ gb' = gb
       ELSE /\ gb' = align_get_bits(gb) + 32
            /\ result' = bytes_consumed(gb)
    /\ pc' = "done"
    /\ probe' = [probe EXCEPT !.fresh = Fresh(probe, result', raster)]
    /\ UNCHANGED <<args, raster, sx, sy, x, y, copyv, tree, bfinal, bmode, ret,
                   trees, caller>>

Next ==
    \/ ff_inflate_begin
    \/ read_block_header
    \/ stored_copy
    \/ inflate_fixed_block
    \/ inflate_dynamic_block
    \/ inflate_symbol
    \/ inflate_copy
    \/ block_end
    \/ ff_inflate_return

Spec == Init /\ [][Next]_vars

SpecSession == InitSession /\ [][Next]_vars


(***************************************************************************)
(* The properties of ff_inflate.                                           *)
(***************************************************************************)
\* the bytes a flat inflate decoder makes of the stream of the call
Flat == Expand(<<>>, probe.input.blocks)

\* the stream of the call is a valid DEFLATE stream, raw or behind a zlib header
ValidInput == ValidStream(probe.input) /\ probe.input.hdr \in {<<>>, ZlibHeader}

\* the call is over: it returned, or it ran into undefined behaviour
Over == pc \in {"done", "ub"}

\* the byte at position p of the raster in raster-scan order
Out(p) == raster[p \div width][p % width]

\* the bit position just after the last block of the stream of the call
TrueEnd ==
    8 * Len(probe.input.hdr)
    + Len(StreamBits(probe.input.blocks, probe.input.framing, 1, <<>>))

\* C1: a call on a valid DEFLATE stream whose decoded length is at most
\* width * height succeeds, and the raster read back in raster-scan order is
\* the output of a flat inflate decoder on the stream.
C1_RoundTrip ==
    (Over /\ ValidInput /\ Len(Flat) <= width * height)
        => /\ pc = "done"
           /\ result >= 0
           /\ Scan(raster, width, Len(Flat)) = Flat

\* C2: every write of a call, a literal, a chunk of a back-reference or a
\* chunk of a stored block, is to a row y with 0 <= y < height.
C2_RowsInRange ==
    probe.wr.n > 0 => probe.wr.y >= 0 /\ probe.wr.y < height

\* C3: every write covers columns of 0 .. width-1 only: it starts at a column
\* x < width and is at most width - x long, and the columns
\* width .. linesize-1 of every row are left as they were.
C3_ColumnsInRange ==
    /\ probe.wr.n > 0 =>
          /\ probe.wr.x >= 0 /\ probe.wr.x < width
          /\ probe.wr.x + probe.wr.n <= width
    /\ \A r \in DOMAIN raster :
          \A c \in width .. linesize - 1 : raster[r][c] = Untouched

\* a stored chunk that was cut at the end of a row, with bytes left to copy
C3_Witness ==
    /\ pc = "stored" /\ len > 0
    /\ probe.wr.n >= 1 /\ probe.wr.x > 0
    /\ probe.wr.x + probe.wr.n = width
    /\ linesize > width

\* C4: once a write has filled the last raster position in the middle of a
\* block, the call reads no further block header, decodes no further symbol,
\* writes no further byte, and returns success.
C4_StopsWhenFull ==
    [][(probe.mid /\ pc \notin {"idle", "done"}) =>
          /\ probe'.hdrs = probe.hdrs
          /\ probe'.syms = probe.syms
          /\ probe'.out = probe.out
          /\ pc' # "ub"
          /\ pc' = "done" => result' >= 0]_vars

\* C5: once an error is detected in a call (ret < 0 after a block, or a
\* direct return of the driver), the call reads no further block header,
\* decodes no further symbol, writes no further byte and reads no further
\* bit, and what it returns is that error.
C5_ErrorAborts ==
    [][(ret < 0 /\ pc \in {"block_end", "exit"}) =>
          /\ ret = AVERROR_INVALIDDATA
          /\ pc' = (IF pc = "block_end" THEN "exit" ELSE "done")
          /\ probe'.hdrs = probe.hdrs
          /\ probe'.syms = probe.syms
          /\ probe'.out = probe.out
          /\ raster' = raster
          /\ gb' = gb
          /\ ret' = ret
          /\ pc' = "done" => result' = ret]_vars

\* an error found in a block that is not the last, after a byte was written
C5_Witness ==
    /\ pc = "exit" /\ ret = AVERROR_INVALIDDATA
    /\ bfinal = 0 /\ probe.out > 0
    /\ probe.hdrs < Len(probe.input.blocks)

\* C6 as stated: on success the call returns B/8 + 4, B the bit position
\* just after the final block of the stream, rounded up to a byte.
C6_ReturnsEndOfFinalBlock ==
    (pc = "done" /\ result >= 0 /\ ValidInput)
        => result = align_get_bits(TrueEnd) \div 8 + 4

\* C6: on success the call returns B/8 + 4, B the bit position at which the
\* block loop ended, rounded up to a byte (the 16 bits of a zlib header
\* included): just after the final block of a valid stream, unless a literal
\* filled the raster and ended the block before its end-of-block symbol.
C6_ReturnsConsumed ==
    (pc = "done" /\ result >= 0)
        => /\ result = align_get_bits(probe.endpos) \div 8 + 4
           /\ gb = align_get_bits(probe.endpos) + 32
           /\ (ValidInput /\ ~probe.cut) => probe.endpos = TrueEnd
           /\ (ValidInput /\ probe.cut) => probe.endpos < TrueEnd

\* a zlib stream whose final block ends inside a byte
C6_Witness ==
    /\ pc = "done" /\ result >= 0
    /\ ValidInput /\ probe.input.hdr = ZlibHeader
    /\ ~probe.cut
    /\ probe.endpos % 8 # 0
    /\ Len(probe.input.blocks) = 2

\* C7: the call consumes the first 16 bits as a zlib header if and only if
\* the low 4 bits of byte 0 are 8, the high 4 bits of byte 0 are at most 7
\* and byte 0 * 256 + byte 1 is divisible by 31.
C7_HeaderSniff ==
    (pc = "block" /\ probe.hdrs = 0 /\ Len(src) >= 2)
        => ((gb = 16) <=> /\ src[1] % 16 = 8
                          /\ src[1] \div 16 <= 7
                          /\ (src[1] * 256 + src[2]) % 31 = 0)

\* C8: over the calls on one session the fixed trees are built at most once:
\* the flag is set exactly when a build has succeeded, and once it is set it
\* stays set, build_fixed_trees is not called and the fixed trees stay.
C8_BuiltOnce ==
    /\ [](/\ probe.builds <= 1
          /\ (probe.builds = 1) <=> (fixed_cb_initialized = 1)
          /\ probe.builds <= probe.build_calls)
    /\ [][fixed_cb_initialized = 1 =>
             /\ fixed_cb_initialized' = 1
             /\ probe'.build_calls = probe.build_calls
             /\ fixed_ltree' = fixed_ltree
             /\ fixed_dtree' = fixed_dtree]_vars

\* a third call that runs a fixed block on trees built once, after a failed
\* attempt
C8_Witness ==
    /\ probe.calls = 3 /\ pc = "symbol" /\ tree = "fixed"
    /\ probe.builds = 1 /\ probe.build_calls = 2

\* C9: a call on a used session returns what the call with the same input
\* and raster geometry returned on the fresh session, and leaves the same
\* raster (a failure of the allocator is an input of the call, not history).
C9_HistoryFree ==
    (/\ Over /\ probe.fresh.set /\ probe.calls >= 2
     /\ probe.input = probe.fresh.input
     /\ probe.fresh.result # AVERROR_ENOMEM
     /\ ~(pc = "done" /\ result = AVERROR_ENOMEM))
        => /\ pc = "done"
           /\ result = probe.fresh.result
           /\ raster = probe.fresh.raster

\* the third call repeats the first, a fixed block that built the cache,
\* after a dynamic block that left its trees and the cursor below the raster
C9_Witness ==
    /\ pc = "done" /\ probe.calls = 3
    /\ probe.input = probe.fresh.input
    /\ probe.input.blocks = <<F_A>>
    /\ result = probe.fresh.result /\ result > 0
    /\ probe.build_calls = 1 /\ fixed_cb_initialized = 1
    /\ dynamic_ltree.max_sym = 257
    /\ sx = 1 /\ sy = 0

\* C10: a back-reference of distance d >= 1 and length l decoded after k
\* bytes, with k + l <= width * height, makes byte k+i equal to byte k+i-d
\* for every i in 0 .. l-1, and writes all l bytes.
C10_BackRefSequential ==
    (/\ probe.ref.l > 0 /\ pc # "ub"
     /\ probe.ref.k + probe.ref.l <= width * height)
        => /\ probe.ref.d >= 1
           /\ \A i \in 0 .. probe.ref.l - 1 :
                 probe.ref.k + i < probe.out
                    => Out(probe.ref.k + i) = Out(probe.ref.k + i - probe.ref.d)
           /\ pc # "copy" => probe.out >= probe.ref.k + probe.ref.l

\* distance 1, length 10 after one byte, across the rows of a raster 4 wide
C10_Witness ==
    /\ pc = "done" /\ result > 0
    /\ probe.ref = [k |-> 1, d |-> 1, l |-> 10]
    /\ width = 4
    /\ Scan(raster, width, 11) = [j \in 1 .. 11 |-> 65]

\* the cursor of the call: that of inflate_block_data inside its loops, the
\* saved one of the context elsewhere
CurX == IF pc \in {"symbol", "copy"} THEN x ELSE sx

CurY == IF pc \in {"symbol", "copy"} THEN y ELSE sy

\* C11: until the raster is full the cursor has 0 <= x < width and
\* y * width + x is the number of bytes output so far; every write starts at
\* row k div width, column k mod width for the k bytes output before it, so
\* that exactly the first bytes-output cells in raster-scan order are
\* written, and on a valid stream they hold the flat output.
C11_CursorIsCount ==
    (pc \notin {"idle", "ub"} /\ ~probe.full)
        => /\ CurX >= 0 /\ CurX < width
           /\ CurY * width + CurX = probe.out
           /\ probe.wr.n > 0
                 => /\ probe.wr.y = (probe.out - probe.wr.n) \div width
                    /\ probe.wr.x = (probe.out - probe.wr.n) % width
           /\ \A k \in 0 .. width * height - 1 :
                 (k < probe.out) <=> (Out(k) # Untouched)
           /\ ValidInput
                 => /\ probe.out <= Len(Flat)
                    /\ Scan(raster, width, probe.out) = SubSeq(Flat, 1, probe.out)

\* a fixed block and a stored block whose bytes end inside the second row,
\* the stored chunk having crossed the end of the first
C11_Witness ==
    /\ pc = "done" /\ result > 0 /\ ~probe.full
    /\ bmode = 0
    /\ probe.out > width /\ probe.out % width # 0
    /\ probe.wr.n > 0 /\ probe.wr.y = 1 /\ probe.wr.x = 0
    /\ sy = 1 /\ sx = probe.out - width

\* the bit position of the header of the k-th block of the stream of the call
BlockPos(k) ==
    8 * Len(probe.input.hdr)
    + Len(StreamBits(SubSeq(probe.input.blocks, 1, k - 1), "none", 1, <<>>))

\* the block loop is about to read the header of a block of the stream,
\* and that block is b
AtBlock(b) ==
    /\ pc = "block"
    /\ probe.hdrs < Len(probe.input.blocks)
    /\ gb = BlockPos(probe.hdrs + 1)
    /\ probe.input.blocks[probe.hdrs + 1] = b

\* the LEN and NLEN fields of a stored block whose header is at bit position i
StoredLen(i) == show_bits(src, align_get_bits(i + 3), 16)

StoredNlen(i) == show_bits(src, align_get_bits(i + 3) + 16, 16)

\* C12: a stored block whose LEN and NLEN fields are not each other's
\* complement makes the call return InvalidData with no byte written by the
\* block; a stored block with a matching header and LEN = 0 writes no byte
\* and leaves the cursor where it was.
C12_StoredHeader ==
    /\ [][(\E b \in AllBodies : b.mode = 0 /\ ~b.nlen_ok /\ AtBlock(b))
             => StoredLen(gb) + StoredNlen(gb) # 65535]_vars
    /\ [][(pc = "block" /\ show_bits(src, gb + 1, 2) = 0
           /\ StoredLen(gb) + StoredNlen(gb) # 65535)
             => /\ pc' = "done"
                /\ result' = AVERROR_INVALIDDATA
                /\ raster' = raster
                /\ probe'.out = probe.out
                /\ sx' = sx /\ sy' = sy]_vars
    /\ [][(pc = "block" /\ show_bits(src, gb + 1, 2) = 0
           /\ StoredLen(gb) + StoredNlen(gb) = 65535 /\ StoredLen(gb) = 0)
             => /\ pc' = "stored" /\ len' = 0
                /\ raster' = raster
                /\ probe'.out = probe.out
                /\ sx' = sx /\ sy' = sy]_vars
    /\ [][(pc = "stored" /\ len = 0)
             => /\ pc' = "block_end"
                /\ raster' = raster
                /\ probe'.out = probe.out
                /\ sx' = sx /\ sy' = sy /\ ret' = ret]_vars

\* a stored block with LEN = NLEN = 1 after a block that wrote a byte: the
\* call returned InvalidData and the raster holds that one byte
C12_Witness ==
    /\ pc = "done" /\ result = AVERROR_INVALIDDATA
    /\ probe.input.blocks = <<F_A, S_bad>>
    /\ probe.hdrs = 2 /\ bmode = 0
    /\ probe.out = 1 /\ Out(0) = 65 /\ Out(1) = Untouched
    /\ sx = 1 /\ sy = 0

(***************************************************************************)
(* build_tree and the run decoder of decode_trees on their own: the        *)
(* inputs are drawn from bounded sets and each call is one step.           *)
(***************************************************************************)
MaxSyms == 4

MaxCodeLen == 3

\* the arrays of MaxSyms code lengths, and how many of them build_tree is
\* given
TreeInputs ==
    {[lengths |-> l, num |-> n] : l \in [1 .. MaxSyms -> 0 .. MaxCodeLen], n \in 0 .. MaxSyms}

NoResult == [ret |-> 0, ub |-> FALSE, t |-> NoTree]

MaxRuns == 3

\* a code-length code: symbols 0 and 3 of length 2, symbols 5, 16, 17 and 18
\* of length 3
RunCl == [s \in 1 .. 19 |-> IF s \in {1, 4} THEN 2 ELSE IF s \in {6, 17, 18, 19} THEN 3 ELSE 0]

RunCode == build_tree(NoTree, RunCl, 19).t

\* the run symbols of an input, with the least and the greatest repeat count
RunSet ==
    {Run(0, 0), Run(3, 0), Run(5, 0), Run(16, 0), Run(16, 3),
     Run(17, 0), Run(17, 7), Run(18, 0), Run(18, 127)}

\* the totals HLIT + HDIST of an input
Totals == {3, 6, 10, 141}

\* the run symbols in the bits given to the loop, and the total to fill; the
\* bits after them are 0
RunInputs ==
    {[runs |-> r, total |-> t] : r \in BlockSeqs(RunSet, MaxRuns), t \in Totals}

NoLengths == [ret |-> 0, gb |-> 0, lengths |-> <<>>, more |-> FALSE]

\* code lengths 0, 0, 1, 0 for the symbols 16, 17, 18, 0, which make symbol 18
\* with the code 0 the only code of the code-length table, and then the bit 1
OneClBits == LsbBits(0, 3) \o LsbBits(0, 3) \o LsbBits(1, 3) \o LsbBits(0, 3) \o <<1>>

\* the headers of a dynamic block given to decode_trees: the 5-bit fields of
\* HLIT and HDIST, the 4-bit field of HCLEN, and the bits after them: none
\* (they read as 0), or the code lengths and run symbols of DynA or DynEob,
\* or OneClBits
HeaderBodies ==
    {<<>>, SubSeq(DynBits(DynA), 15, Len(DynBits(DynA))),
     SubSeq(DynBits(DynEob), 15, Len(DynBits(DynEob))),
     OneClBits}

TreesInputs ==
    {[hlit |-> a, hdist |-> b, hclen |-> c, body |-> d] :
        a \in {0, 1, 29, 30, 31}, b \in {0, 29, 30, 31}, c \in {0, 14, 15},
        d \in HeaderBodies}

NoTrees == trees_result(0, FALSE, 0, NoTree, NoTree)

InitTables ==
    /\ \/ /\ pc = "tree"
          /\ probe \in {[in |-> i, r |-> NoResult] : i \in TreeInputs}
          /\ src = <<>>
       \/ /\ pc = "lengths"
          /\ \E i \in RunInputs :
                /\ probe = [in |-> i, r |-> NoLengths]
                /\ src = Pack(RunsBits(RunCode, i.runs))
       \/ /\ pc = "trees"
          /\ \E i \in TreesInputs :
                /\ probe = [in |-> i, r |-> NoTrees]
                /\ src = Pack(LsbBits(i.hlit, 5) \o LsbBits(i.hdist, 5)
                             \o LsbBits(i.hclen, 4) \o i.body)
    /\ width = 1 /\ height = 1 /\ linesize = 1
    /\ raster = BlankRaster(1, 1)
    /\ gb = 0
    /\ sx = 0 /\ sy = 0 /\ x = 0 /\ y = 0
    /\ len = 0 /\ offs_x = 0 /\ offs_y = 0
    /\ tree = "none"
    /\ bfinal = 0 /\ bmode = 0 /\ ret = 0
    /\ fixed_cb_initialized = 0
    /\ fixed_ltree = NoTree /\ fixed_dtree = NoTree
    /\ dynamic_ltree = NoTree /\ dynamic_dtree = NoTree
    /\ result = 0
    /\ calls_left = 0
    /\ pool = "tables"
    /\ alloc = {"ok"}

\* build_tree(&s->dynamic_ltree, lengths, num)
build_tree_call ==
    /\ pc = "tree"
    /\ \E r \in {build_tree(dynamic_ltree, probe.in.lengths, probe.in.num)} :
          /\ probe' = [probe EXCEPT !.r = r]
          /\ dynamic_ltree' = r.t
          /\ ret' = r.ret
    /\ pc' = "tree_done"
    /\ UNCHANGED <<args, raster, gb, sx, sy, x, y, copyv, tree, bfinal, bmode, result,
                   fixed_cb_initialized, fixed_ltree, fixed_dtree, dynamic_dtree, caller>>

\* the loop of lines 284-315 with the code-length tree RunCode
read_lengths_call ==
    /\ pc = "lengths"
    /\ \E r \in {read_lengths(src, gb, RunCode, <<>>, probe.in.total)} :
          /\ probe' = [probe EXCEPT !.r = r]
          /\ gb' = r.gb
          /\ ret' = r.ret
    /\ pc' = "lengths_done"
    /\ UNCHANGED <<args, raster, sx, sy, x, y, copyv, tree, bfinal, bmode, result,
                   trees, caller>>

\* decode_trees(s, &s->dynamic_ltree, &s->dynamic_dtree)
decode_trees_call ==
    /\ pc = "trees"
    /\ \E r \in {decode_trees(src, gb, dynamic_ltree, dynamic_dtree)} :
          /\ probe' = [probe EXCEPT !.r = r]
          /\ gb' = r.gb
          /\ ret' = r.ret
          /\ dynamic_ltree' = r.lt
          /\ dynamic_dtree' = r.dt
    /\ pc' = "trees_done"
    /\ UNCHANGED <<args, raster, sx, sy, x, y, copyv, tree, bfinal, bmode, result,
                   fixed_cb_initialized, fixed_ltree, fixed_dtree, caller>>

NextTables ==
    \/ build_tree_call
    \/ read_lengths_call
    \/ decode_trees_call

SpecTables == InitTables /\ [][NextTables]_vars

\* the symbols of the array given to build_tree that have a code
UsedSyms == {k \in 1 .. probe.in.num : probe.in.lengths[k] # 0}

\* the sum of 2^-len over the used symbols, in units of 2^-15
RECURSIVE KraftSum(_)
KraftSum(k) ==
    IF k = 0 THEN 0
    ELSE KraftSum(k - 1)
         + (IF probe.in.lengths[k] = 0 THEN 0 ELSE 2 ^ (15 - probe.in.lengths[k]))

\* exactly one used symbol, of length 1
SingleOne == Cardinality(UsedSyms) = 1 /\ \A k \in UsedSyms : probe.in.lengths[k] = 1

\* C13 as stated: build_tree rejects with InvalidData every array whose sum
\* of 2^-len over the used symbols differs from 1, the array with exactly
\* one used symbol of length 1 excepted, which it accepts.
C13_RejectsUnlessComplete ==
    pc = "tree_done"
        => /\ (KraftSum(probe.in.num) # 2 ^ 15 /\ ~SingleOne)
                 => probe.r.ret = AVERROR_INVALIDDATA
           /\ SingleOne => probe.r.ret = 0

\* C13: build_tree rejects with InvalidData every array with two or more
\* used symbols whose sum of 2^-len differs from 1 and every array with one
\* used symbol of a length other than 1; it accepts a complete code, one
\* used symbol of length 1, and the array with no used symbol at all
\* (max_sym = -1).
C13_AcceptsExactly ==
    pc = "tree_done"
        => /\ ~probe.r.ub
           /\ probe.r.ret \in {0, AVERROR_INVALIDDATA}
           /\ (probe.r.ret = 0)
                 <=> \/ UsedSyms = {}
                     \/ SingleOne
                     \/ Cardinality(UsedSyms) >= 2 /\ KraftSum(probe.in.num) = 2 ^ 15
           /\ probe.r.ret = 0
                 => /\ \A k \in UsedSyms : k - 1 <= probe.r.t.max_sym
                    /\ UsedSyms = {} <=> probe.r.t.max_sym = -1
                    /\ probe.r.t.max_sym >= 0 => probe.r.t.max_sym + 1 \in UsedSyms

\* an array without a used symbol, given whole to build_tree and accepted
C13_Witness ==
    /\ pc = "tree_done"
    /\ probe.in.num = MaxSyms /\ UsedSyms = {}
    /\ probe.r.ret = 0 /\ probe.r.t.max_sym = -1

\* the block whose header was read last is block b of the stream, read in
\* step with the encoder, and the bit reader is n bits past that header
InBlock(b, n) ==
    /\ probe.hdrs >= 1 /\ probe.hdrs <= Len(probe.input.blocks)
    /\ probe.input.blocks[probe.hdrs] = b
    /\ gb = BlockPos(probe.hdrs) + 3 + n

\* C14: a dynamic block with HLIT = 257 whose only literal/length code is
\* symbol 256 with length 1 and that has no distance code is accepted:
\* decode_trees succeeds, the first symbol decoded is 256, no byte is
\* written, the cursor stays and the block returns success.
C14_EobOnlyBlock ==
    /\ [][(pc = "dynamic" /\ InBlock(D_EOB, 0))
             => /\ get_bits_base(src, gb, 5, 257) = 257
                /\ pc' = "symbol" /\ tree' = "dynamic"
                /\ dynamic_ltree'.max_sym = 256
                /\ dynamic_dtree'.max_sym = -1
                /\ gb' = gb + Len(CodeEob.bits)
                /\ x' = sx /\ y' = sy
                /\ ret' = ret /\ raster' = raster]_vars
    /\ [][(pc = "symbol" /\ tree = "dynamic" /\ InBlock(D_EOB, Len(CodeEob.bits)))
             => /\ decode_symbol(src, gb, dynamic_ltree).sym = 256
                /\ probe'.syms = probe.syms + 1
                /\ probe'.out = probe.out
                /\ raster' = raster
                /\ sx' = sx /\ sy' = sy
                /\ pc' = "block_end" /\ ret' = 0]_vars

\* such a block after a block that wrote one byte: it ended with success,
\* the cursor and the byte count as the first block left them
C14_Witness ==
    /\ pc = "block_end" /\ ret = 0 /\ bmode = 2
    /\ probe.input.blocks = <<F_A, D_EOB>>
    /\ InBlock(D_EOB, Len(CodeEob.bits) + 1)
    /\ dynamic_ltree.max_sym = 256 /\ dynamic_dtree.max_sym = -1
    /\ probe.out = 1 /\ sx = 1 /\ sy = 0

\* C15: after every block that ends without error, the final one included,
\* the call compares the bit position with 8 * src_len and returns
\* InvalidData if it is beyond; so in a call that returns success the bit
\* position at the end of every block was at most 8 * src_len.
C15_OverrunChecked ==
    /\ [][(pc = "block_end" /\ ret >= 0)
             => /\ probe'.endpos = gb
                /\ IF gb > 8 * Len(src)
                   THEN pc' = "exit" /\ ret' = AVERROR_INVALIDDATA
                   ELSE /\ ret' = ret
                        /\ pc' = (IF bfinal = 0 THEN "block" ELSE "exit")]_vars
    /\ [][(pc = "exit" /\ ret < 0) => (pc' = "done" /\ result' = ret)]_vars
    /\ [][(pc \in {"block", "stored", "fixed", "dynamic", "symbol", "copy"})
             => gb' >= gb]_vars
    /\ []((probe.hdrs > 0 /\ ret >= 0 /\ pc \in {"block", "exit"})
             => probe.endpos <= 8 * Len(src))
    /\ []((pc = "done" /\ result >= 0)
             => (probe.hdrs > 0 /\ probe.endpos <= 8 * Len(src)))

\* a block that wrote a byte and ended beyond the input: the check turned
\* its success into InvalidData
C15_Witness ==
    /\ pc = "exit" /\ ret = AVERROR_INVALIDDATA
    /\ probe.endpos = gb /\ gb > 8 * Len(src)
    /\ probe.out > 0 /\ bmode \in {1, 2}

RECURSIVE LitRun(_, _, _, _)
LitRun(ras, cx, cy, bytes) ==
    IF bytes = <<>> \/ cy >= height THEN [raster |-> ras, x |-> cx, y |-> cy]
    ELSE LitRun([ras EXCEPT ![cy][cx] = Head(bytes)],
                IF cx + 1 >= width THEN 0 ELSE cx + 1,
                IF cx + 1 >= width THEN cy + 1 ELSE cy,
                Tail(bytes))

\* the n bytes of the input from bit position i on
SrcBytes(i, n) == [k \in 1 .. n |-> src[i \div 8 + k]]

Sniffed == probe.input.hdr = <<>> /\ is_zlib_header(show_bits(src, 0, 16))

\* C18: blocks are processed in stream order: after a block with
\* final-block flag 0 that ended without error and within the input, the
\* next three bits are parsed as a block header; after the first block with
\* final-block flag 1 that ended without error no block header is parsed any
\* more, and what is left is to align, skip 32 bits and return.
C18_BlocksInOrder ==
    /\ [][(pc = "block_end" /\ ret >= 0 /\ gb <= 8 * Len(src) /\ bfinal = 0)
             => (pc' = "block" /\ gb' = gb /\ probe'.hdrs = probe.hdrs)]_vars
    /\ [][(pc = "block")
             => /\ probe'.hdrs = probe.hdrs + 1
                /\ bfinal' = Bit(src, gb)
                /\ bmode' = Bit(src, gb + 1) + 2 * Bit(src, gb + 2)
                /\ gb' >= gb + 3]_vars
    /\ [][(pc = "block_end" /\ ret >= 0 /\ gb <= 8 * Len(src) /\ bfinal = 1)
             => (pc' = "exit" /\ ret' = ret /\ gb' = gb /\ probe'.hdrs = probe.hdrs)]_vars
    /\ [][(pc = "exit" /\ ret >= 0)
             => /\ pc' = "done"
                /\ probe'.hdrs = probe.hdrs
                /\ raster' = raster
                /\ gb' = 8 * ((gb + 7) \div 8) + 32
                /\ result' = gb' \div 8]_vars
    /\ [][(pc = "done") => probe'.hdrs = probe.hdrs]_vars
    /\ []((pc = "block" /\ ValidInput /\ ~Sniffed /\ ~probe.full)
             => /\ probe.hdrs < Len(probe.input.blocks)
                /\ gb = BlockPos(probe.hdrs + 1))

\* a stream of two blocks whose first block carries the final-block flag:
\* the call returned success after one header
C18_Witness ==
    /\ pc = "done" /\ result > 0
    /\ probe.input.framing = "first" /\ Len(probe.input.blocks) = 2
    /\ probe.hdrs = 1 /\ bfinal = 1
    /\ gb = 8 * ((BlockPos(2) + 7) \div 8) + 32

\* C19: a block header with block type 3 makes the call return InvalidData
\* in that step, whatever its final-block flag and whatever came before:
\* nothing is written, no bit beyond the three header bits is consumed, and
\* the bytes written by earlier blocks stay in the raster.
C19_ReservedType ==
    /\ [][(\E b \in AllBodies : b.mode = 3 /\ AtBlock(b))
             => Bit(src, gb + 1) + 2 * Bit(src, gb + 2) = 3]_vars
    /\ [][(pc = "block" /\ Bit(src, gb + 1) = 1 /\ Bit(src, gb + 2) = 1)
             => /\ pc' = "done"
                /\ result' = AVERROR_INVALIDDATA
                /\ raster' = raster
                /\ probe'.out = probe.out
                /\ probe'.syms = probe.syms
                /\ gb' = gb + 3
                /\ sx' = sx /\ sy' = sy]_vars
    /\ []((pc = "done" /\ bmode = 3)
             => /\ result = AVERROR_INVALIDDATA
                /\ \A k \in 0 .. width * height - 1 :
                      (k < probe.out) <=> (Out(k) # Untouched))

\* a block of type 3 without the final-block flag, read after a block that
\* wrote bytes: the call returned InvalidData and the bytes are in the raster
C19_Witness ==
    /\ pc = "done" /\ result = AVERROR_INVALIDDATA
    /\ bmode = 3 /\ bfinal = 0
    /\ probe.hdrs = 2 /\ probe.out > 0
    /\ Out(0) # Untouched

\* what the run symbols spell: the entries they fill of an array of total
\* entries, the bits they take, and InvalidData where a symbol 16 comes
\* first or a run is longer than what is left of the array; the zero bits
\* after the run symbols are the code of symbol 0, two bits each
RunCount(r) ==
    IF r.sym = 16 THEN 3 + r.extra
    ELSE IF r.sym = 17 THEN 3 + r.extra
    ELSE IF r.sym = 18 THEN 11 + r.extra
    ELSE 1

RunValue(r, acc) == IF r.sym = 16 THEN acc[Len(acc)] ELSE IF r.sym \in {17, 18} THEN 0 ELSE r.sym

RunBitCount(r) ==
    Len(CodeOf(RunCode, r.sym))
    + (IF r.sym = 16 THEN 2 ELSE IF r.sym = 17 THEN 3 ELSE IF r.sym = 18 THEN 7 ELSE 0)

RECURSIVE RunsSpell(_, _, _, _)
RunsSpell(runs, acc, total, bits) ==
    IF Len(acc) >= total THEN [ret |-> 0, lengths |-> acc, gb |-> bits]
    ELSE IF runs = <<>>
    THEN [ret |-> 0, lengths |-> acc \o Zeros(total - Len(acc)),
          gb |-> bits + 2 * (total - Len(acc))]
    ELSE IF Head(runs).sym = 16 /\ acc = <<>>
    THEN [ret |-> AVERROR_INVALIDDATA, lengths |-> acc,
          gb |-> bits + Len(CodeOf(RunCode, 16))]
    ELSE IF RunCount(Head(runs)) > total - Len(acc)
    THEN [ret |-> AVERROR_INVALIDDATA, lengths |-> acc,
          gb |-> bits + RunBitCount(Head(runs))]
    ELSE RunsSpell(Tail(runs),
                   acc \o [k \in 1 .. RunCount(Head(runs)) |-> RunValue(Head(runs), acc)],
                   total, bits + RunBitCount(Head(runs)))

\* C20: the code-length loop of decode_trees fills the array of HLIT + HDIST
\* entries exactly: a symbol 0-15 stores one value, 16 repeats the last value
\* 3-6 times, 17 stores 3-10 zeros, 18 stores 11-138 zeros; it returns
\* InvalidData if 16 comes first or a run is longer than what is left; on
\* success the entries filled are HLIT + HDIST exactly, and their number
\* never passes it.
C20_RunsFillExactly ==
    pc = "lengths_done"
        => /\ probe.r.ret = RunsSpell(probe.in.runs, <<>>, probe.in.total, 0).ret
           /\ probe.r.lengths = RunsSpell(probe.in.runs, <<>>, probe.in.total, 0).lengths
           /\ probe.r.gb = RunsSpell(probe.in.runs, <<>>, probe.in.total, 0).gb
           /\ probe.r.ret \in {0, AVERROR_INVALIDDATA}
           /\ Len(probe.r.lengths) <= probe.in.total
           /\ probe.r.ret = 0 => Len(probe.r.lengths) = probe.in.total
           /\ (probe.in.runs[1].sym = 16) => probe.r.ret = AVERROR_INVALIDDATA
           /\ \A k \in 1 .. Len(probe.r.lengths) : probe.r.lengths[k] \in 0 .. 15

\* 138 zeros by symbol 18 and the last of them three times more by symbol
\* 16 fill an array of 141 entries exactly
C20_Witness ==
    /\ pc = "lengths_done"
    /\ probe.in.total = 141
    /\ probe.in.runs = <<Run(18, 127), Run(16, 0)>>
    /\ probe.r.ret = 0
    /\ probe.r.lengths = Zeros(141)
    /\ probe.r.gb = 15

\* the counts a header given to decode_trees stands for
InHlit == 257 + probe.in.hlit

InHdist == 1 + probe.in.hdist

InHclen == 4 + probe.in.hclen

\* C21: a header with HLIT > 286 or HDIST > 30 makes decode_trees return
\* InvalidData with the reader just after the three counts, before a code
\* length is read or a tree is built; an accepted header has
\* 257 <= HLIT <= 286, 1 <= HDIST <= 30 and 4 <= HCLEN <= 19, so that the
\* entries written of the length array are among its 320 and the entries
\* read of the permutation among its 19.
C21_HeaderCounts ==
    pc = "trees_done"
        => IF InHlit > 286 \/ InHdist > 30
           THEN /\ probe.r.ret = AVERROR_INVALIDDATA
                /\ ~probe.r.ub
                /\ probe.r.gb = 14
                /\ probe.r.lt.vlc = NoVlc /\ probe.r.dt.vlc = NoVlc
           ELSE /\ InHlit >= 257 /\ InHlit <= 286
                /\ InHdist >= 1 /\ InHdist <= 30
                /\ InHclen >= 4 /\ InHclen <= 19
                /\ probe.r.gb >= 14 + 3 * InHclen
                /\ InHclen <= Len(len_recode)
                /\ \A k \in 0 .. InHclen - 1 : At(len_recode, k) \in 0 .. 18
                /\ InHlit + InHdist <= 320
                /\ Len(read_clens(src, 14, ZeroLengths, 0, InHclen)) = 320

\* HLIT = 287 with a good HDIST, in front of the code lengths of a good block
C21_Witness ==
    /\ pc = "trees_done"
    /\ InHlit = 287 /\ InHdist = 1 /\ InHclen = 18
    /\ probe.in.body # <<>>
    /\ probe.r.ret = AVERROR_INVALIDDATA /\ probe.r.gb = 14

\* C22: the symbol loop is never run with a dynamic literal/length table in
\* which symbol 256 has no code: decode_trees returns InvalidData for such a
\* block, before it builds the literal/length and the distance table, and
\* the block writes no byte.
C22_EobHasCode ==
    /\ []((pc \in {"symbol", "copy"} /\ tree = "dynamic")
             => \E k \in 1 .. Len(dynamic_ltree.vlc.symbol) :
                    dynamic_ltree.vlc.symbol[k] = 256)
    /\ [][(pc = "dynamic" /\ InBlock(D_NOEOB, 0))
             => /\ pc' = "block_end" /\ ret' = AVERROR_INVALIDDATA
                /\ gb' = gb + Len(CodeNoEob.bits)
                /\ dynamic_ltree'.vlc = NoVlc /\ dynamic_dtree'.vlc = NoVlc
                /\ raster' = raster
                /\ probe'.out = probe.out /\ probe'.syms = probe.syms
                /\ sx' = sx /\ sy' = sy]_vars
    /\ [][(pc = "block_end" /\ bmode = 2 /\ InBlock(D_NOEOB, Len(CodeNoEob.bits)))
             => (pc' = "exit" /\ ret' = AVERROR_INVALIDDATA /\ raster' = raster)]_vars

\* a dynamic block with codes for 65 and 66 only, after a block that wrote a
\* byte: it ended with InvalidData once its lengths were read
C22_Witness ==
    /\ pc = "block_end" /\ ret = AVERROR_INVALIDDATA /\ bmode = 2
    /\ probe.input.blocks = <<F_A, D_NOEOB>>
    /\ InBlock(D_NOEOB, Len(CodeNoEob.bits))
    /\ probe.out = 1 /\ probe.syms = 2
    /\ sx = 1 /\ sy = 0

\* the symbol the symbol loop is about to decode, and the distance symbol
\* that follows a length symbol sym
SymNow == decode_symbol(src, gb, Lt)

DistNow(sym) == decode_symbol(src, gb + SymNow.n + At(length_bits, sym - 257), Dt).sym

\* a length symbol and the distance symbol after it pass the tests of C23
PairAccepted(sym) ==
    /\ sym <= 285 /\ sym <= Lt.max_sym /\ Dt.max_sym # -1
    /\ DistNow(sym) <= 29 /\ DistNow(sym) <= Dt.max_sym

\* C23: a literal/length symbol above 256 is accepted only if it is at most
\* 285 and at most the table's max symbol and the distance table is not
\* empty, the distance symbol after it only if it is at most 29 and at most
\* the distance table's max symbol; otherwise the block fails with
\* InvalidData and no byte is copied.  A fixed block so turns down 286, 287
\* and the distance symbols 30, 31, and indexes the length tables at 0 .. 28
\* and the distance tables at 0 .. 29 only.
C23_SymbolRanges ==
    /\ [][(pc = "symbol" /\ SymNow.sym > 256 /\ ~PairAccepted(SymNow.sym))
             => /\ pc' = "block_end" /\ ret' = AVERROR_INVALIDDATA
                /\ raster' = raster /\ probe'.out = probe.out
                /\ sx' = x /\ sy' = y]_vars
    /\ [][(pc = "symbol" /\ pc' = "copy")
             => /\ SymNow.sym > 256 /\ PairAccepted(SymNow.sym)
                /\ raster' = raster]_vars
    /\ [][(pc = "symbol" /\ tree = "fixed" /\ SymNow.sym > 256)
             => /\ SymNow.sym <= 287
                /\ SymNow.sym \in {286, 287} => ret' = AVERROR_INVALIDDATA
                /\ SymNow.sym <= 285
                      => /\ SymNow.sym - 257 \in 0 .. 28
                         /\ DistNow(SymNow.sym) \in 0 .. 31
                         /\ DistNow(SymNow.sym) \in {30, 31} => ret' = AVERROR_INVALIDDATA
                         /\ pc' = "copy" => DistNow(SymNow.sym) \in 0 .. 29
                /\ pc' # "ub"]_vars

\* a fixed block that ended with InvalidData at distance symbol 30, after a
\* literal and length symbol 257
C23_Witness ==
    /\ pc = "block_end" /\ ret = AVERROR_INVALIDDATA /\ tree = "fixed"
    /\ probe.input.blocks = <<F_d30>>
    /\ InBlock(F_d30, 20)
    /\ probe.out = 1 /\ probe.syms = 2

\* the length symbol, the distance symbol and the flat source offset of the
\* back-reference the symbol loop is about to decode
RefDist == DistNow(SymNow.sym)

RefOffs ==
    y * width + x
    - get_bits_base(src,
                    gb + SymNow.n + At(length_bits, SymNow.sym - 257)
                       + decode_symbol(src, gb + SymNow.n + At(length_bits, SymNow.sym - 257), Dt).n,
                    At(dist_bits, RefDist), At(dist_base, RefDist))

\* the length of the chunk the copy loop is about to move
ChunkLen == copy_ilen(x, y, offs_x, offs_y, len, width)

\* C24: a back-reference whose distance exceeds y * width + x fails with
\* InvalidData and copies no byte; every chunk of an accepted back-reference
\* reads flat offsets >= 0 that lie before the position being written, in a
\* row offs_y <= y and at columns < width, all of them written earlier in
\* this call.
C24_BackRefReadsWritten ==
    /\ [][(/\ pc = "symbol" /\ SymNow.sym > 256 /\ PairAccepted(SymNow.sym)
           /\ RefDist >= 0 /\ RefOffs < 0)
             => /\ pc' = "block_end" /\ ret' = AVERROR_INVALIDDATA
                /\ raster' = raster /\ probe'.out = probe.out
                /\ sx' = x /\ sy' = y]_vars
    /\ [][(pc = "symbol" /\ pc' = "copy")
             => /\ RefOffs >= 0
                /\ offs_y' * width + offs_x' = RefOffs
                /\ RefOffs < y * width + x]_vars
    /\ []((pc = "copy" /\ len > 0)
             => /\ ChunkLen >= 1
                /\ offs_y >= 0 /\ offs_x >= 0
                /\ offs_y <= y
                /\ offs_x + ChunkLen <= width
                /\ offs_y * width + offs_x + ChunkLen <= y * width + x
                /\ y * width + x <= probe.out)

\* the second chunk of an accepted back-reference, read from the row above
C24_Witness ==
    /\ pc = "copy" /\ len > 0
    /\ probe.ref # NoRef
    /\ probe.wr.n >= 1 /\ probe.wr.y = 0
    /\ y = 1 /\ offs_y = 0
    /\ y < height

\* C25: for an array with exactly one used symbol, of length 1, build_tree
\* builds a table of two codes, the symbol itself and a second symbol
\* max_sym + 1, so that both values of the next input bit decode to one of
\* the two.
C25_DummySecondCode ==
    (pc = "tree_done" /\ SingleOne)
        => /\ probe.r.ret = 0
           /\ Len(probe.r.t.vlc.symbol) = 2
           /\ probe.r.t.vlc.symbol[2] = probe.r.t.max_sym + 1
           /\ \A b \in {0, 1} :
                 decode_symbol(<<b>>, 0, probe.r.t).sym
                     \in {probe.r.t.max_sym, probe.r.t.max_sym + 1}

\* one call of ff_inflate that, once begun, is not suspended: a step of the
\* call that can be taken is taken (the decoder is synchronous and waits for
\* nothing).  This is weak fairness of every action of the call; for
\* inflate_fixed_block, inflate_symbol and inflate_dynamic_block, which can
\* be taken exactly when pc names them, the enabling condition is written
\* out.  When a call begins is left to the caller.
SpecLive ==
    /\ Init /\ [][Next]_vars
    /\ WF_vars(read_block_header) /\ WF_vars(stored_copy)
    /\ WF_vars(inflate_copy) /\ WF_vars(block_end)
    /\ WF_vars(ff_inflate_return)
    /\ ([]<>(pc # "fixed") \/ []<><<inflate_fixed_block>>_vars)
    /\ ([]<>(pc # "symbol") \/ []<><<inflate_symbol>>_vars)
    /\ ([]<>(pc # "dynamic") \/ []<><<inflate_dynamic_block>>_vars)

\* every iteration of the block loop consumes at least 3 bits, every
\* iteration of the symbol loop returns, writes a byte or starts a
\* back-reference, and every chunk of a back-reference or of a stored block
\* has length >= 1
C26_Progress ==
    /\ [][(pc = "block") => gb' >= gb + 3]_vars
    /\ [][(pc = "symbol")
             => \/ pc' = "block_end"
                \/ pc' = "copy" /\ len' >= 3
                \/ probe'.out = probe.out + 1]_vars
    /\ []((pc = "copy" /\ len > 0) => ChunkLen >= 1)
    /\ []((pc = "stored" /\ len > 0) => stored_ilen(width, sx, len) >= 1)
    /\ [][(pc \in {"copy", "stored"} /\ len > 0) => probe'.out > probe.out]_vars

\* every call that began ends: it returns, or it runs into undefined behaviour
C26_EndsOrUndefined == (pc = "block") ~> Over

BytesLeft == Len(src) - gb \div 8

\* C27: the stored-block copy never reads an input byte at an index >=
\* input_length: a stored block whose LEN exceeds the input bytes that remain
\* after its header is turned down with InvalidData before a byte is copied.
C27_StoredWithinInput ==
    /\ []((pc = "stored" /\ len > 0 /\ sy < height)
             => gb \div 8 + stored_ilen(width, sx, len) <= Len(src))
    /\ [][(pc = "block" /\ pc' = "stored") => len' <= Len(src) - gb' \div 8]_vars
    /\ [][(pc = "stored" /\ BytesLeft < len)
             => pc' # "ub" /\ raster' = raster]_vars

\* C28: a successful call returns a byte count between 0 and input_length,
\* also when the final block ends fewer than 4 bytes before the end of the
\* input.
C28_ReturnWithinInput ==
    (pc = "done" /\ result >= 0) => result <= Len(src)

\* C29: every value decode_trees stores into the code-length array, and so
\* every length build_tree indexes counts and offs with, lies in 0 .. 15,
\* whatever decode_symbol returns on the code-length table.
C29_LengthsInRange ==
    /\ pc = "lengths_done"
          => \A k \in 1 .. Len(probe.r.lengths) : probe.r.lengths[k] \in 0 .. 15
    /\ pc = "trees_done" => ~probe.r.ub

\* C30: on a valid raw DEFLATE stream the call skips no bit before the
\* first block header, so that the stream decodes as it does behind a zlib
\* header: the first two bytes of a valid raw stream are never taken for a
\* zlib header.
C30_RawNotSniffed ==
    /\ (pc = "block" /\ probe.hdrs = 0 /\ ValidStream(probe.input)
        /\ probe.input.hdr = <<>>)
          => gb = 0
    /\ (pc = "block" /\ probe.hdrs = 0 /\ ValidStream(probe.input)
        /\ probe.input.hdr = ZlibHeader)
          => gb = 16
    /\ (pc = "done" /\ probe.input.blocks = <<S_pad, F_A>>
        /\ probe.input.hdr \in {<<>>, ZlibHeader})
          => /\ result >= 0
             /\ Scan(raster, width, 2) = <<65, 65>>

============================================================================
